---- MODULE Spec2Model ----
(***************************************************************************)
(* Model of the Social Engager workflow (src/social_engager/graph.py):     *)
(* the LangGraph state machine discover_topic -> research_topic ->         *)
(* generate_tweet -> validate_content -> {post_content | regenerate_tweet  *)
(* | END}, the channel merge of WorkflowState, and the guardrails.          *)
(*                                                                         *)
(* Python strings are modelled as sequences of one-character strings, so   *)
(* that substring tests ("Regeneration attempt" in str(e), phrase in       *)
(* text_lower) and f-string formatting are computed, not assumed.          *)
(***************************************************************************)
EXTENDS Integers, Sequences, FiniteSets, TLC

\* ------------------------------------------------------------------------
\* Python string helpers
\* ------------------------------------------------------------------------

UpperLetters ==
  <<"A","B","C","D","E","F","G","H","I","J","K","L","M",
    "N","O","P","Q","R","S","T","U","V","W","X","Y","Z">>

LowerLetters ==
  <<"a","b","c","d","e","f","g","h","i","j","k","l","m",
    "n","o","p","q","r","s","t","u","v","w","x","y","z">>

DigitChars ==
  <<"0","1","2","3","4","5","6","7","8","9">>

Range(s) ==
  {s[i] : i \in 1..Len(s)}

UpperSet ==
  Range(UpperLetters)

LowerMap ==
  [c \in UpperSet |-> LowerLetters[CHOOSE i \in 1..26 : UpperLetters[i] = c]]

\* str.lower() on one character
LowerChar(c) ==
  IF c \in UpperSet THEN LowerMap[c] ELSE c

\* str.lower()
Lower(s) ==
  [i \in 1..Len(s) |-> LowerChar(s[i])]

\* Python's `sub in s` on strings
\* the element of a one-element set; Only({F(x) : x \in {e}}) evaluates e once
Only(S) ==
  CHOOSE x \in S : TRUE

OccursAt(s, sub, i) ==
  \A j \in 1..Len(sub) : s[i + j] = sub[j]

Contains(s, sub) ==
  \E sv \in {s}, subv \in {sub} :
    \E i \in 0..(Len(sv) - Len(subv)) : OccursAt(sv, subv, i)

\* str(n) for a natural number
RECURSIVE IntToStr(_)
IntToStr(n) ==
  IF n < 10 THEN <<DigitChars[n + 1]>>
  ELSE IntToStr(n \div 10) \o <<DigitChars[(n % 10) + 1]>>

\* str.strip() leaves nothing: `not text.strip()`
IsBlank(s) ==
  \A i \in 1..Len(s) : s[i] \in {" ", "\n", "\t"}

\* "sep".join(parts)
RECURSIVE Join(_, _)
Join(parts, sep) ==
  IF Len(parts) = 0 THEN <<>>
  ELSE IF Len(parts) = 1 THEN parts[1]
  ELSE parts[1] \o sep \o Join(Tail(parts), sep)

\* str(list_of_str): "['a', 'b']"
PyListRepr(items) ==
  <<"[">> \o Join([i \in 1..Len(items) |-> <<"'">> \o items[i] \o <<"'">>], <<",", " ">>) \o <<"]">>

\* s.split(sep) for a one-character separator
RECURSIVE Split(_, _)
Split(s, sep) ==
  IF \E i \in 1..Len(s) : s[i] = sep
    THEN LET k == CHOOSE i \in 1..Len(s) : s[i] = sep /\ \A j \in 1..(i - 1) : s[j] # sep
         IN  <<SubSeq(s, 1, k - 1)>> \o Split(SubSeq(s, k + 1, Len(s)), sep)
    ELSE <<s>>

WordChars ==
  Range(UpperLetters) \cup Range(LowerLetters) \cup Range(DigitChars) \cup {"_"}

\* regex \w
IsWordChar(c) ==
  c \in WordChars

\* regex \b between positions i and i+1 of s (0 = before the first character)
WordBoundary(s, i) ==
  LET before == i >= 1 /\ IsWordChar(s[i])
      after  == i + 1 <= Len(s) /\ IsWordChar(s[i + 1])
  IN  before # after

\* the positions of s at which \b matches
Boundaries(s) ==
  {i \in 0..Len(s) : WordBoundary(s, i)}

\* ------------------------------------------------------------------------
\* Literal texts of the source
\* ------------------------------------------------------------------------

S_RegenerationAttempt ==
  <<"R","e","g","e","n","e","r","a","t","i","o","n"," ","a","t","t","e","m","p","t">>

S_PatternPrefix ==
  <<"P","a","t","t","e","r","n",":"," ">>

S_PhrasePrefix ==
  <<"P","h","r","a","s","e",":"," ">>

S_TweetIsEmpty ==
  <<"T","w","e","e","t"," ","i","s"," ","e","m","p","t","y">>

S_ModerationFlags ==
  <<"M","o","d","e","r","a","t","i","o","n"," ","f","l","a","g","s",":"," ">>

S_ValidationError ==
  <<"V","a","l","i","d","a","t","i","o","n"," ","e","r","r","o","r",":"," ">>

S_ModerationError ==
  <<"m","o","d","e","r","a","t","i","o","n","_","e","r","r","o","r",":"," ">>

S_TweetGenFailed ==
  <<"T","w","e","e","t"," ","g","e","n","e","r","a","t","i","o","n"," ","f","a","i","l","e","d",":"," ">>

S_Inappropriate ==
  <<"C","o","n","t","e","n","t"," ","f","l","a","g","g","e","d"," ","a","s"," ","i","n","a","p","p","r","o","p","r","i","a","t","e">>

S_OffTopicA ==
  <<"C","o","n","t","e","n","t"," ","i","s"," ","o","f","f","-","t","o","p","i","c","."," ","D","e","t","e","c","t","e","d",":"," ">>

S_OffTopicB ==
  <<","," ","E","x","p","e","c","t","e","d",":"," ">>

S_LowConfA ==
  <<"L","o","w"," ","c","o","n","f","i","d","e","n","c","e"," ","i","n"," ","c","o","n","t","e","n","t"," ","q","u","a","l","i","t","y",":"," ">>

S_LowConfB ==
  <<"/","1","0">>

S_ExceedsA ==
  <<"T","w","e","e","t"," ","e","x","c","e","e","d","s"," ","2","8","0"," ","c","h","a","r","a","c","t","e","r","s",":"," ">>

S_TweetTooLongA ==
  <<"T","w","e","e","t"," ","t","o","o"," ","l","o","n","g",":"," ">>

S_TweetTooLongB ==
  <<" ","c","h","a","r","a","c","t","e","r","s"," ","(","m","a","x"," ","2","8","0",")">>

S_DryRunPrefix ==
  <<"[","D","R","Y"," ","R","U","N","]"," ","T","w","e","e","t"," ","l","o","g","g","e","d"," ","b","u","t"," ","n","o","t"," ","p","o","s","t","e","d",":","\n","\n">>

S_PostedOk ==
  <<"T","w","e","e","t"," ","p","o","s","t","e","d"," ","s","u","c","c","e","s","s","f","u","l","l","y","!"," ","T","w","e","e","t"," ","I","D",":"," ">>

S_FailedPost ==
  <<"F","a","i","l","e","d"," ","t","o"," ","p","o","s","t"," ","t","w","e","e","t",":"," ">>

S_ErrorPrefix ==
  <<"E","r","r","o","r",":"," ">>

S_successfully ==
  <<"s","u","c","c","e","s","s","f","u","l","l","y">>

S_DRY_RUN ==
  <<"D","R","Y"," ","R","U","N">>

S_TweetID ==
  <<"T","w","e","e","t"," ","I","D",":">>

S_true ==
  <<"t","r","u","e">>

S_None ==
  <<"N","o","n","e">>

ENV_FALSE ==
  <<"f","a","l","s","e">>

PLATFORM_ID ==
  <<"1","7","9","0">>

ERR_FORBIDDEN ==
  <<"4","0","3"," ","F","o","r","b","i","d","d","e","n">>

ERR_CONNECTION ==
  <<"c","o","n","n","e","c","t","i","o","n"," ","r","e","s","e","t">>

TAG_AI ==
  <<"A","I">>
TWEET_CLEAN ==
  <<"A","I"," ","a","g","e","n","t","s"," ","h","e","l","p">>

TWEET_FAKE ==
  <<"A","I"," ","b","e","a","t","s"," ","f","a","k","e"," ","n","e","w","s">>

ERR_TIMEOUT ==
  <<"t","i","m","e","o","u","t">>

CONCERN_TONE ==
  <<"t","o","n","e"," ","i","s"," ","h","a","r","s","h">>

FLAG_SPAM ==
  <<"s","p","a","m">>

CAT_AI ==
  <<"a","i">>

CAT_TECHNOLOGY ==
  <<"t","e","c","h","n","o","l","o","g","y">>

TOPIC_NEWS ==
  <<"N","e","w"," ","A","I"," ","a","g","e","n","t","s">>

FALLBACK_TOPIC ==
  <<"T","h","e"," ","l","a","t","e","s","t"," ","d","e","v","e","l","o","p","m","e","n","t","s"," ","i","n"," ","A","I"," ","a","g","e","n","t","s">>

FALLBACK_CONTEXT ==
  <<"E","x","p","l","o","r","e"," ","r","e","c","e","n","t"," ","a","d","v","a","n","c","e","s"," ","i","n"," ","A","I"," ","a","g","e","n","t"," ","t","e","c","h","n","o","l","o","g","y">>

SUMMARY_OK ==
  <<"A","g","e","n","t","s"," ","i","m","p","r","o","v","e">>

S_TopicPrefix ==
  <<"T","o","p","i","c",":"," ">>

S_UnableResearch ==
  <<"."," ","U","n","a","b","l","e"," ","t","o"," ","c","o","m","p","l","e","t","e"," ","f","u","l","l"," ","r","e","s","e","a","r","c","h",".">>

STYLE_INFORMATIVE ==
  <<"i","n","f","o","r","m","a","t","i","v","e">>

STYLE_ERROR ==
  <<"e","r","r","o","r">>

BLOCKED_PATTERNS ==
  <<
    <<"\\","b","(","p","o","l","i","t","i","c","|","p","o","l","i","t","i","c","i","a","n","|","e","l","e","c","t","i","o","n","|","v","o","t","e","|","v","o","t","i","n","g","|","b","a","l","l","o","t","|","c","a","m","p","a","i","g","n","|","d","e","m","o","c","r","a","t","|","r","e","p","u","b","l","i","c","a","n","|","l","i","b","e","r","a","l","|","c","o","n","s","e","r","v","a","t","i","v","e",")","\\","b">>,
    <<"\\","b","(","c","o","n","g","r","e","s","s","|","s","e","n","a","t","e","|","p","a","r","l","i","a","m","e","n","t","|","p","r","e","s","i","d","e","n","t","|","p","r","i","m","e"," ","m","i","n","i","s","t","e","r","|","g","o","v","e","r","n","m","e","n","t"," ","p","o","l","i","c","y",")","\\","b">>,
    <<"\\","b","(","l","e","f","t","-","w","i","n","g","|","r","i","g","h","t","-","w","i","n","g","|","p","a","r","t","i","s","a","n","|","b","i","p","a","r","t","i","s","a","n",")","\\","b">>,
    <<"\\","b","(","r","e","l","i","g","i","o","u","s","|","r","e","l","i","g","i","o","n","|","c","h","u","r","c","h","|","m","o","s","q","u","e","|","t","e","m","p","l","e","|","s","y","n","a","g","o","g","u","e","|","b","i","b","l","e","|","q","u","r","a","n","|","t","o","r","a","h",")","\\","b">>,
    <<"\\","b","(","c","h","r","i","s","t","i","a","n","|","m","u","s","l","i","m","|","j","e","w","i","s","h","|","h","i","n","d","u","|","b","u","d","d","h","i","s","t","|","a","t","h","e","i","s","t",")","\\","b">>,
    <<"\\","b","(","c","o","n","t","r","o","v","e","r","s","i","a","l","|","s","c","a","n","d","a","l","|","c","o","n","t","r","o","v","e","r","s","y","|","o","u","t","r","a","g","e","|","b","a","c","k","l","a","s","h",")","\\","b">>,
    <<"\\","b","(","l","a","w","s","u","i","t","|","s","u","e","d","|","s","u","i","n","g","|","l","e","g","a","l"," ","a","c","t","i","o","n","|","c","o","u","r","t"," ","c","a","s","e",")","\\","b">>,
    <<"\\","b","(","f","i","r","e","d","|","l","a","y","o","f","f","|","l","a","y","o","f","f","s","|","d","o","w","n","s","i","z","i","n","g","|","j","o","b"," ","c","u","t","s",")","\\","b">>,
    <<"\\","b","(","b","a","n","k","r","u","p","t","|","b","a","n","k","r","u","p","t","c","y","|","c","o","l","l","a","p","s","e","|","f","a","i","l","u","r","e","|","c","r","a","s","h","e","d",")","\\","b">>,
    <<"\\","b","(","h","a","t","e","|","h","a","t","i","n","g","|","h","a","t","r","e","d","|","r","a","c","i","s","t","|","r","a","c","i","s","m","|","s","e","x","i","s","t","|","s","e","x","i","s","m",")","\\","b">>,
    <<"\\","b","(","w","a","r","|","w","a","r","f","a","r","e","|","m","i","l","i","t","a","r","y"," ","s","t","r","i","k","e","|","b","o","m","b","i","n","g","|","a","t","t","a","c","k",")","\\","b">>,
    <<"\\","b","(","d","a","m","n","|","h","e","l","l","|","c","r","a","p",")","\\","b">>,
    <<"\\","b","(","d","a","n","g","e","r","o","u","s","|","d","e","a","d","l","y","|","c","a","t","a","s","t","r","o","p","h","i","c","|","a","p","o","c","a","l","y","p","t","i","c","|","d","o","o","m","s","d","a","y",")","\\","b">>,
    <<"\\","b","(","t","h","r","e","a","t","|","t","h","r","e","a","t","e","n","i","n","g","|","m","e","n","a","c","e","|","p","e","r","i","l",")","\\","b">>
  >>

BLOCKED_PHRASES ==
  <<
    <<"f","a","k","e"," ","n","e","w","s">>,
    <<"d","e","e","p"," ","s","t","a","t","e">>,
    <<"c","o","n","s","p","i","r","a","c","y"," ","t","h","e","o","r","y">>,
    <<"c","u","l","t","u","r","e"," ","w","a","r">>,
    <<"w","o","k","e"," ","a","g","e","n","d","a">>,
    <<"c","a","n","c","e","l"," ","c","u","l","t","u","r","e">>,
    <<"b","i","g"," ","t","e","c","h"," ","c","e","n","s","o","r","s","h","i","p">>,
    <<"m","a","i","n","s","t","r","e","a","m"," ","m","e","d","i","a">>,
    <<"p","o","l","i","t","i","c","a","l"," ","c","o","r","r","e","c","t","n","e","s","s">>
  >>

\* ------------------------------------------------------------------------
\* The state of the program
\* ------------------------------------------------------------------------

VARIABLES
  pc,                 \* the node the executor runs next ("__end__" when the run is over)
  state,              \* the shared WorkflowState
  environ,            \* the process environment (DRY_RUN)
  workflow_log,       \* logs/workflow_log.jsonl
  tweet_log,          \* logs/tweet_log.jsonl
  create_tweet_calls, \* texts handed to client.create_tweet
  blocklist,          \* the module globals of guardrails/keyword_filter.py
  trace,              \* history: the nodes executed so far, in order
  passes,             \* history: what the three checkers returned in each Validate pass
  input,              \* the arguments a function-level specification starts from
  output              \* the value the function returned for them

vars ==
  <<pc, state, environ, workflow_log, tweet_log, create_tweet_calls, blocklist, trace,
    passes, input, output>>

\* ------------------------------------------------------------------------
\* guardrails/keyword_filter.py
\* ------------------------------------------------------------------------

\* re.compile(pattern, re.IGNORECASE) for the shape \b(a|b|...)\b used by
\* every entry of BLOCKED_PATTERNS: the list of alternatives, case-folded
re_compile(pattern) ==
  LET alternatives == Split(SubSeq(pattern, 4, Len(pattern) - 3), "|")
  IN  [a \in 1..Len(alternatives) |-> Lower(alternatives[a])]

COMPILED_PATTERNS ==
  [i \in 1..Len(BLOCKED_PATTERNS) |-> re_compile(BLOCKED_PATTERNS[i])]

\* the case-folded alternative sub occurs in text right after position i
OccursAtIgnoreCase(text, sub, i) ==
  \A j \in 1..Len(sub) : LowerChar(text[i + j]) = sub[j]

\* pattern.search(text): some alternative occurs, ignoring case, with a
\* word boundary on both sides; boundaries is Boundaries(text)
pattern_search(compiled, text, boundaries) ==
  \E i \in boundaries :
    \E a \in 1..Len(compiled) :
      /\ i + Len(compiled[a]) \in boundaries
      /\ OccursAtIgnoreCase(text, compiled[a], i)

\* the module globals as they are once the module has been imported
ImportedBlocklist ==
  [BLOCKED_PATTERNS |-> BLOCKED_PATTERNS,
   COMPILED_PATTERNS |-> COMPILED_PATTERNS,
   BLOCKED_PHRASES |-> BLOCKED_PHRASES]

\* re.compile(pattern) raises re.error: the pattern has a parenthesis that
\* is never closed or never opened
re_error(pattern) ==
  Cardinality({i \in 1..Len(pattern) : pattern[i] = "("})
    # Cardinality({i \in 1..Len(pattern) : pattern[i] = ")"})

\* both functions return the new value of the module globals; in
\* add_blocked_pattern the pattern is appended to BLOCKED_PATTERNS before it
\* is compiled, and a pattern that fails to compile ends the call there
add_blocked_pattern(pattern) ==
  IF re_error(pattern)
    THEN [blocklist EXCEPT !.BLOCKED_PATTERNS = Append(@, pattern)]
    ELSE [blocklist EXCEPT !.BLOCKED_PATTERNS = Append(@, pattern),
                           !.COMPILED_PATTERNS = Append(@, re_compile(pattern))]

add_blocked_phrase(phrase) ==
  [blocklist EXCEPT !.BLOCKED_PHRASES = Append(@, phrase)]

RECURSIVE MatchedPatterns(_, _, _)
MatchedPatterns(text, boundaries, i) ==
  IF i > Len(blocklist.COMPILED_PATTERNS) THEN <<>>
  ELSE (IF pattern_search(blocklist.COMPILED_PATTERNS[i], text, boundaries)
          THEN <<S_PatternPrefix \o blocklist.BLOCKED_PATTERNS[i]>>
          ELSE <<>>) \o MatchedPatterns(text, boundaries, i + 1)

RECURSIVE MatchedPhrases(_, _)
MatchedPhrases(text_lower, i) ==
  IF i > Len(blocklist.BLOCKED_PHRASES) THEN <<>>
  ELSE (IF Contains(text_lower, Lower(blocklist.BLOCKED_PHRASES[i]))
          THEN <<S_PhrasePrefix \o blocklist.BLOCKED_PHRASES[i]>>
          ELSE <<>>) \o MatchedPhrases(text_lower, i + 1)

\* variant: the phrase list is not consulted
check_keyword_blocklist_patterns_only(text) ==
  IF Len(text) = 0 THEN <<TRUE, <<>>>>
  ELSE Only({<<Len(matched_patterns) = 0, matched_patterns>> :
               matched_patterns \in
                 {MatchedPatterns(text, boundaries, 1) : boundaries \in {Boundaries(text)}}})

\* variant: the phrases are looked up in the text as written
check_keyword_blocklist_case_sensitive(text) ==
  IF Len(text) = 0 THEN <<TRUE, <<>>>>
  ELSE Only({<<Len(matched_patterns) = 0, matched_patterns>> :
               matched_patterns \in
                 {MatchedPatterns(text, boundaries, 1) \o MatchedPhrases(text, 1) :
                    boundaries \in {Boundaries(text)}}})

\* returns <<is_clean, matched_patterns>>
check_keyword_blocklist(text) ==
  IF Len(text) = 0 THEN <<TRUE, <<>>>>
  ELSE Only({<<Len(matched_patterns) = 0, matched_patterns>> :
               matched_patterns \in
                 {MatchedPatterns(text, boundaries, 1) \o MatchedPhrases(text_lower, 1) :
                    text_lower \in {Lower(text)}, boundaries \in {Boundaries(text)}}})

\* ------------------------------------------------------------------------
\* guardrails/content_validator.py and guardrails/moderation.py
\* The external model call is an input: it raises, or returns a result.
\* ------------------------------------------------------------------------

TWEET_LIMIT == 280

\* variant: the length of the tweet is not checked
validate_tweet_content_no_length(tweet, topic_category, llm) ==
  IF Len(tweet) = 0 \/ IsBlank(tweet) THEN <<FALSE, <<S_TweetIsEmpty>>>>
  ELSE
    LET e1 == IF ~llm.is_on_topic
                THEN <<S_OffTopicA \o llm.detected_category \o S_OffTopicB \o topic_category>>
                ELSE <<>>
        e2 == IF ~llm.is_appropriate THEN <<S_Inappropriate>> ELSE <<>>
        e3 == llm.concerns
        e4 == IF llm.confidence < 5
                THEN <<S_LowConfA \o IntToStr(llm.confidence) \o S_LowConfB>> ELSE <<>>
        errors == e1 \o e2 \o e3 \o e4
    IN  IF llm.raises THEN <<FALSE, <<S_ValidationError \o llm.error>>>>
        ELSE <<Len(errors) = 0, errors>>

\* returns <<is_valid, errors>>; llm is the outcome of structured_model.ainvoke
validate_tweet_content(tweet, topic_category, llm) ==
  IF Len(tweet) = 0 \/ IsBlank(tweet) THEN <<FALSE, <<S_TweetIsEmpty>>>>
  ELSE
    LET e0 == IF Len(tweet) > TWEET_LIMIT
                THEN <<S_ExceedsA \o IntToStr(Len(tweet))>> ELSE <<>>
        e1 == IF ~llm.is_on_topic
                THEN <<S_OffTopicA \o llm.detected_category \o S_OffTopicB \o topic_category>>
                ELSE <<>>
        e2 == IF ~llm.is_appropriate THEN <<S_Inappropriate>> ELSE <<>>
        e3 == llm.concerns
        e4 == IF llm.confidence < 5
                THEN <<S_LowConfA \o IntToStr(llm.confidence) \o S_LowConfB>> ELSE <<>>
        errors == e0 \o e1 \o e2 \o e3 \o e4
    IN  IF llm.raises THEN <<FALSE, <<S_ValidationError \o llm.error>>>>
        ELSE <<Len(errors) = 0, errors>>

\* structured_model.ainvoke is reached: the tweet is not empty or blank
validation_model_called(tweet) ==
  ~(Len(tweet) = 0 \/ IsBlank(tweet))

\* structured_model.invoke is reached: the text is not empty or blank
moderation_model_called(text) ==
  ~(Len(text) = 0 \/ IsBlank(text))

\* variant: a failing model call is treated as no finding
check_content_safety_fail_open(text, llm) ==
  IF Len(text) = 0 \/ IsBlank(text) THEN <<TRUE, <<>>>>
  ELSE IF llm.raises THEN <<TRUE, <<>>>>
  ELSE <<llm.is_safe, llm.flagged_categories>>

\* returns <<is_safe, flagged_categories>>; llm is the outcome of structured_model.invoke
check_content_safety(text, llm) ==
  IF Len(text) = 0 \/ IsBlank(text) THEN <<TRUE, <<>>>>
  ELSE IF llm.raises THEN <<FALSE, <<S_ModerationError \o llm.error>>>>
  ELSE <<llm.is_safe, llm.flagged_categories>>

\* ------------------------------------------------------------------------
\* utils.py and tools/x_poster.py
\* ------------------------------------------------------------------------

\* os.getenv(name, default) on the process environment
getenv(env, name, default) ==
  IF name \in DOMAIN env THEN env[name] ELSE default

\* variant: the environment is not consulted, the default applies
is_dry_run_default_only(env) ==
  Lower(S_true) = S_true

\* variant: the value of DRY_RUN is compared as written
is_dry_run_case_sensitive(env) ==
  getenv(env, "DRY_RUN", S_true) = S_true

is_dry_run(env) ==
  Lower(getenv(env, "DRY_RUN", S_true)) = S_true

\* the text after the last occurrence of sep: s.split(sep)[-1]
SplitLast(s, sep) ==
  IF Contains(s, sep)
    THEN LET k == CHOOSE i \in 0..(Len(s) - Len(sep)) :
                    /\ OccursAt(s, sep, i)
                    /\ \A j \in (i + 1)..(Len(s) - Len(sep)) : ~OccursAt(s, sep, j)
         IN  SubSeq(s, k + Len(sep) + 1, Len(s))
    ELSE s

\* str.strip()
RECURSIVE Strip(_)
Strip(s) ==
  IF Len(s) = 0 THEN s
  ELSE IF IsBlank(<<s[1]>>) THEN Strip(Tail(s))
  ELSE IF IsBlank(<<s[Len(s)]>>) THEN Strip(SubSeq(s, 1, Len(s) - 1))
  ELSE s

\* variant: the dry-run check comes before the length check
post_tweet_dry_run_first(tweet_text, topic, env, api) ==
  IF is_dry_run(env) THEN
    [raises |-> FALSE, value |-> S_DryRunPrefix \o tweet_text, called |-> FALSE,
     log |-> <<[tweet_text |-> tweet_text, tweet_id |-> <<"D","R","Y","_","R","U","N">>,
                status |-> "dry_run"]>>]
  ELSE IF Len(tweet_text) > TWEET_LIMIT THEN
    LET error_msg == S_TweetTooLongA \o IntToStr(Len(tweet_text)) \o S_TweetTooLongB
    IN  [raises |-> FALSE, value |-> error_msg, called |-> FALSE,
         log |-> <<[tweet_text |-> tweet_text, tweet_id |-> S_None, status |-> "rejected"]>>]
  ELSE IF api.kind = "ok" THEN
    [raises |-> FALSE, value |-> S_PostedOk \o api.id, called |-> TRUE,
     log |-> <<[tweet_text |-> tweet_text, tweet_id |-> api.id, status |-> "posted"]>>]
  ELSE IF api.kind = "tweepy_error" THEN
    [raises |-> FALSE, value |-> S_FailedPost \o api.error, called |-> TRUE,
     log |-> <<[tweet_text |-> tweet_text, tweet_id |-> S_None, status |-> "failed"]>>]
  ELSE
    [raises |-> TRUE, value |-> api.error, called |-> TRUE, log |-> <<>>]

\* post_tweet(tweet_text, topic): the returned status message, the entry
\* appended to the tweet log, whether client.create_tweet was called, and
\* whether an exception other than TweepyException escapes the tool.
\* api is the outcome of client.create_tweet.
post_tweet(tweet_text, topic, env, api) ==
  IF Len(tweet_text) > TWEET_LIMIT THEN
    LET error_msg == S_TweetTooLongA \o IntToStr(Len(tweet_text)) \o S_TweetTooLongB
    IN  [raises |-> FALSE, value |-> error_msg, called |-> FALSE,
         log |-> <<[tweet_text |-> tweet_text, tweet_id |-> S_None, status |-> "rejected"]>>]
  ELSE IF is_dry_run(env) THEN
    [raises |-> FALSE, value |-> S_DryRunPrefix \o tweet_text, called |-> FALSE,
     log |-> <<[tweet_text |-> tweet_text, tweet_id |-> <<"D","R","Y","_","R","U","N">>,
                status |-> "dry_run"]>>]
  ELSE IF api.kind = "ok" THEN
    [raises |-> FALSE, value |-> S_PostedOk \o api.id, called |-> TRUE,
     log |-> <<[tweet_text |-> tweet_text, tweet_id |-> api.id, status |-> "posted"]>>]
  ELSE IF api.kind = "tweepy_error" THEN
    [raises |-> FALSE, value |-> S_FailedPost \o api.error, called |-> TRUE,
     log |-> <<[tweet_text |-> tweet_text, tweet_id |-> S_None, status |-> "failed"]>>]
  ELSE
    [raises |-> TRUE, value |-> api.error, called |-> TRUE, log |-> <<>>]

\* ------------------------------------------------------------------------
\* states/workflow_state.py: the channels of WorkflowState and their merge
\* ------------------------------------------------------------------------

\* channels declared Annotated[list, operator.add] (or add_messages): a
\* node's update is appended to the channel's value; every other channel
\* keeps the last value written
REDUCER_CHANNELS ==
  {"messages", "key_insights", "sources", "validation_errors"}

\* state.get(key, default)
Get(d, key, default) ==
  IF key \in DOMAIN d THEN d[key] ELSE default

\* variant: every channel keeps the last value written (no reducer)
Merge_last_value(st, update) ==
  [k \in (DOMAIN st) \cup (DOMAIN update) |->
     IF k \notin DOMAIN update THEN st[k] ELSE update[k]]

\* the executor's merge of a node's partial update into the shared state
Merge(st, update) ==
  [k \in (DOMAIN st) \cup (DOMAIN update) |->
     IF k \notin DOMAIN update THEN st[k]
     ELSE IF k \in REDUCER_CHANNELS /\ k \in DOMAIN st THEN st[k] \o update[k]
     ELSE update[k]]

\* ------------------------------------------------------------------------
\* graph.py: the nodes
\* ------------------------------------------------------------------------

MAX_REGENERATION_ATTEMPTS == 3

\* sum(1 for e in errors if "Regeneration attempt" in str(e))
regen_count(errors) ==
  Cardinality({i \in 1..Len(errors) : Contains(errors[i], S_RegenerationAttempt)})

\* each node returns its partial update and the records it appends to the
\* workflow log (a logged list of errors is recorded by its length)

\* variant: the error path of discover_topic returns no topic
discover_topic_without_fallback(st, agent) ==
  IF agent.raises THEN
    [update |-> [selected_topic |-> <<>>, topic_category |-> CAT_AI, topic_context |-> <<>>],
     log |-> <<[step |-> "discover_topic_error", data |-> [error |-> agent.error]]>>]
  ELSE
    LET upd == [selected_topic |-> Get(agent.result, "selected_topic", <<>>),
                topic_category |-> Get(agent.result, "topic_category", CAT_AI),
                topic_context |-> Get(agent.result, "topic_context", <<>>)]
    IN  [update |-> upd, log |-> <<[step |-> "discover_topic", data |-> upd]>>]

discover_topic(st, agent) ==
  IF agent.raises THEN
    [update |-> [selected_topic |-> FALLBACK_TOPIC, topic_category |-> CAT_AI,
                 topic_context |-> FALLBACK_CONTEXT],
     log |-> <<[step |-> "discover_topic_error", data |-> [error |-> agent.error]]>>]
  ELSE
    LET upd == [selected_topic |-> Get(agent.result, "selected_topic", <<>>),
                topic_category |-> Get(agent.result, "topic_category", CAT_AI),
                topic_context |-> Get(agent.result, "topic_context", <<>>)]
    IN  [update |-> upd, log |-> <<[step |-> "discover_topic", data |-> upd]>>]

research_topic(st, agent) ==
  LET topic == Get(st, "selected_topic", <<>>)
  IN  IF agent.raises THEN
        [update |-> [research_summary |-> S_TopicPrefix \o topic \o S_UnableResearch,
                     key_insights |-> <<topic>>],
         log |-> <<[step |-> "research_topic_error", data |-> [error |-> agent.error]]>>]
      ELSE
        LET research_summary == Get(agent.result, "compressed_research", <<>>)
            key_insights == Get(agent.result, "key_insights", <<>>)
        IN  [update |-> [research_summary |-> research_summary, key_insights |-> key_insights],
             log |-> <<[step |-> "research_topic",
                        data |-> [topic |-> topic,
                                  summary_length |-> Len(research_summary),
                                  insight_count |-> Len(key_insights)]]>>]

\* variant: the error path of generate_tweet writes no audit record
generate_tweet_error_unlogged(st, agent) ==
  IF agent.raises THEN
    [update |-> [generated_tweet |-> <<>>, tweet_style |-> STYLE_ERROR, hashtags |-> <<>>,
                 validation_errors |-> <<S_TweetGenFailed \o agent.error>>],
     log |-> <<>>]
  ELSE
    LET tweet == Get(agent.result, "generated_tweet", <<>>)
        style == Get(agent.result, "tweet_style", STYLE_INFORMATIVE)
    IN  [update |-> [generated_tweet |-> tweet, tweet_style |-> style,
                     hashtags |-> Get(agent.result, "hashtags", <<>>)],
         log |-> <<[step |-> "generate_tweet",
                    data |-> [tweet |-> tweet, style |-> style, length |-> Len(tweet)]]>>]

generate_tweet(st, agent) ==
  IF agent.raises THEN
    [update |-> [generated_tweet |-> <<>>, tweet_style |-> STYLE_ERROR, hashtags |-> <<>>,
                 validation_errors |-> <<S_TweetGenFailed \o agent.error>>],
     log |-> <<[step |-> "generate_tweet_error", data |-> [error |-> agent.error]]>>]
  ELSE
    LET tweet == Get(agent.result, "generated_tweet", <<>>)
        style == Get(agent.result, "tweet_style", STYLE_INFORMATIVE)
    IN  [update |-> [generated_tweet |-> tweet, tweet_style |-> style,
                     hashtags |-> Get(agent.result, "hashtags", <<>>)],
         log |-> <<[step |-> "generate_tweet",
                    data |-> [tweet |-> tweet, style |-> style, length |-> Len(tweet)]]>>]

\* variant: any(safety_checks.values())
AllChecks_any(safety_checks) ==
  \E k \in DOMAIN safety_checks : safety_checks[k]

\* all(safety_checks.values())
AllChecks(safety_checks) ==
  \A k \in DOMAIN safety_checks : safety_checks[k]

\* variant: is_safe is taken before the keyword layer has been recorded
validate_content_before_keyword(st, topic, mod, keyword) ==
  LET errors0 == Get(st, "validation_errors", <<>>)
      errors1 == IF ~topic[1] THEN errors0 \o topic[2] ELSE errors0
      errors2 == IF ~mod[1]
                   THEN Append(errors1, S_ModerationFlags \o PyListRepr(mod[2]))
                   ELSE errors1
      errors == IF ~keyword[1] THEN errors2 \o keyword[2] ELSE errors2
      is_safe == topic[1] /\ mod[1]
      safety_checks == [topic_validation |-> topic[1],
                        moderation_check |-> mod[1],
                        keyword_filter |-> keyword[1]]
  IN  [update |-> [is_safe |-> is_safe, safety_checks |-> safety_checks,
                   validation_errors |-> errors],
       log |-> <<[step |-> "validate_content",
                  data |-> [is_safe |-> is_safe, safety_checks |-> safety_checks,
                            errors |-> Len(errors)]]>>,
       calls |-> <<"validate_tweet_content", "check_content_safety",
                   "check_keyword_blocklist">>]

\* variant: the layers after the first failing one are skipped
validate_content_short_circuit(st, topic, mod, keyword) ==
  LET errors0 == Get(st, "validation_errors", <<>>)
      ran2 == topic[1]
      ran3 == topic[1] /\ mod[1]
      errors1 == IF ~topic[1] THEN errors0 \o topic[2] ELSE errors0
      errors2 == IF ran2 /\ ~mod[1]
                   THEN Append(errors1, S_ModerationFlags \o PyListRepr(mod[2]))
                   ELSE errors1
      errors == IF ran3 /\ ~keyword[1] THEN errors2 \o keyword[2] ELSE errors2
      safety_checks == [topic_validation |-> topic[1],
                        moderation_check |-> ran2 /\ mod[1],
                        keyword_filter |-> ran3 /\ keyword[1]]
      is_safe == AllChecks(safety_checks)
  IN  [update |-> [is_safe |-> is_safe, safety_checks |-> safety_checks,
                   validation_errors |-> errors],
       log |-> <<[step |-> "validate_content",
                  data |-> [is_safe |-> is_safe, safety_checks |-> safety_checks,
                            errors |-> Len(errors)]]>>,
       calls |-> <<"validate_tweet_content">>
                   \o (IF ran2 THEN <<"check_content_safety">> ELSE <<>>)
                   \o (IF ran3 THEN <<"check_keyword_blocklist">> ELSE <<>>)]

\* validate_content: topic, mod and keyword are what validate_tweet_content,
\* check_content_safety and check_keyword_blocklist returned for the tweet
\* (the calls are made by the ValidateContent step, once each, in the order
\* the node makes them, which it reports as calls)
validate_content(st, topic, mod, keyword) ==
  LET errors0 == Get(st, "validation_errors", <<>>)
      errors1 == IF ~topic[1] THEN errors0 \o topic[2] ELSE errors0
      errors2 == IF ~mod[1]
                   THEN Append(errors1, S_ModerationFlags \o PyListRepr(mod[2]))
                   ELSE errors1
      errors == IF ~keyword[1] THEN errors2 \o keyword[2] ELSE errors2
      safety_checks == [topic_validation |-> topic[1],
                        moderation_check |-> mod[1],
                        keyword_filter |-> keyword[1]]
      is_safe == AllChecks(safety_checks)
  IN  [update |-> [is_safe |-> is_safe, safety_checks |-> safety_checks,
                   validation_errors |-> errors],
       log |-> <<[step |-> "validate_content",
                  data |-> [is_safe |-> is_safe, safety_checks |-> safety_checks,
                            errors |-> Len(errors)]]>>,
       calls |-> <<"validate_tweet_content", "check_content_safety",
                   "check_keyword_blocklist">>]

\* variant: the bound is compared with <= instead of <
should_post_or_regenerate_off_by_one(st) ==
  LET is_safe == Get(st, "is_safe", FALSE)
      errors == Get(st, "validation_errors", <<>>)
  IN  IF is_safe THEN "post_content"
      ELSE IF regen_count(errors) <= MAX_REGENERATION_ATTEMPTS THEN "regenerate_tweet"
      ELSE "__end__"

\* variant: the attempt bound is not consulted
should_post_or_regenerate_unbounded(st) ==
  IF Get(st, "is_safe", FALSE) THEN "post_content" ELSE "regenerate_tweet"

should_post_or_regenerate(st) ==
  LET is_safe == Get(st, "is_safe", FALSE)
      errors == Get(st, "validation_errors", <<>>)
  IN  IF is_safe THEN "post_content"
      ELSE IF regen_count(errors) < MAX_REGENERATION_ATTEMPTS THEN "regenerate_tweet"
      ELSE "__end__"

\* variant: the errors are cleared and no marker is written
regenerate_tweet_no_marker(st) ==
  LET errors == Get(st, "validation_errors", <<>>)
      error_count == regen_count(errors)
  IN  [update |-> [validation_errors |-> <<>>, is_safe |-> FALSE],
       log |-> <<[step |-> "regenerate_tweet",
                  data |-> [attempt |-> error_count + 1, previous_errors |-> Len(errors)]]>>]

regenerate_tweet(st) ==
  LET errors == Get(st, "validation_errors", <<>>)
      error_count == regen_count(errors)
      new_errors == <<S_RegenerationAttempt \o <<" ">> \o IntToStr(error_count + 1)>>
  IN  [update |-> [validation_errors |-> new_errors, is_safe |-> FALSE],
       log |-> <<[step |-> "regenerate_tweet",
                  data |-> [attempt |-> error_count + 1, previous_errors |-> Len(errors)]]>>]

\* variant: only a "successfully" result counts as posted
post_content_result_success_only(tweet, env, call) ==
  LET result == call.value
      is_posted == Contains(Lower(result), S_successfully)
      tweet_id == IF Contains(result, S_TweetID) THEN Strip(SplitLast(result, S_TweetID))
                  ELSE <<>>
  IN  IF call.raises THEN
        [update |-> [is_posted |-> FALSE, post_result |-> S_ErrorPrefix \o call.value,
                     tweet_id |-> <<>>],
         log |-> <<[step |-> "post_content_error", data |-> [error |-> call.value]]>>,
         call |-> call]
      ELSE
        [update |-> [is_posted |-> is_posted, post_result |-> result, tweet_id |-> tweet_id],
         log |-> <<[step |-> "post_content",
                    data |-> [tweet |-> tweet, result |-> result, is_posted |-> is_posted,
                              tweet_id |-> tweet_id, dry_run |-> is_dry_run(env)]]>>,
         call |-> call]

\* the body of post_content once post_tweet.invoke has returned or raised
post_content_result(tweet, env, call) ==
  LET result == call.value
      is_posted == Contains(Lower(result), S_successfully) \/ Contains(result, S_DRY_RUN)
      tweet_id == IF Contains(result, S_TweetID) THEN Strip(SplitLast(result, S_TweetID))
                  ELSE <<>>
  IN  IF call.raises THEN
        [update |-> [is_posted |-> FALSE, post_result |-> S_ErrorPrefix \o call.value,
                     tweet_id |-> <<>>],
         log |-> <<[step |-> "post_content_error", data |-> [error |-> call.value]]>>,
         call |-> call]
      ELSE
        [update |-> [is_posted |-> is_posted, post_result |-> result, tweet_id |-> tweet_id],
         log |-> <<[step |-> "post_content",
                    data |-> [tweet |-> tweet, result |-> result, is_posted |-> is_posted,
                              tweet_id |-> tweet_id, dry_run |-> is_dry_run(env)]]>>,
         call |-> call]

post_content(st, env, api) ==
  LET tweet == Get(st, "generated_tweet", <<>>)
      topic == Get(st, "selected_topic", <<>>)
  IN  Only({post_content_result(tweet, env, call) :
              call \in {post_tweet(tweet, topic, env, api)}})

\* ------------------------------------------------------------------------
\* Inputs: the outcomes of the external collaborators
\* ------------------------------------------------------------------------

\* the largest number of Draft executions the model explores
MaxDrafts == 6

NoEnv ==
  [k \in {} |-> <<>>]

Environments ==
  {NoEnv, [DRY_RUN |-> ENV_FALSE]}

DiscoverOutcomes ==
  {[raises |-> FALSE, error |-> <<>>,
    result |-> [selected_topic |-> TOPIC_NEWS, topic_category |-> CAT_TECHNOLOGY,
                topic_context |-> <<>>]],
   [raises |-> TRUE, error |-> ERR_TIMEOUT, result |-> [topic_context |-> <<>>]]}

ResearchOutcomes ==
  {[raises |-> FALSE, error |-> <<>>,
    result |-> [compressed_research |-> SUMMARY_OK, key_insights |-> <<SUMMARY_OK>>]],
   [raises |-> TRUE, error |-> ERR_TIMEOUT, result |-> [key_insights |-> <<>>]]}

DraftResult(tweet, style) ==
  [raises |-> FALSE, error |-> <<>>,
   result |-> [generated_tweet |-> tweet, tweet_style |-> style, hashtags |-> <<TAG_AI>>]]

DraftOutcomes ==
  {DraftResult(TWEET_CLEAN, STYLE_INFORMATIVE),
   DraftResult(TWEET_FAKE, STYLE_INFORMATIVE),
   DraftResult(<<>>, STYLE_ERROR),
   [raises |-> TRUE, error |-> ERR_TIMEOUT,
    result |-> [generated_tweet |-> <<>>, tweet_style |-> STYLE_ERROR, hashtags |-> <<>>]]}

TopicVerdict(on_topic, appropriate, concerns, confidence) ==
  [raises |-> FALSE, error |-> <<>>, is_on_topic |-> on_topic,
   detected_category |-> IF on_topic THEN CAT_AI ELSE CAT_TECHNOLOGY,
   is_appropriate |-> appropriate, concerns |-> concerns, confidence |-> confidence]

TopicRaises ==
  [raises |-> TRUE, error |-> ERR_TIMEOUT, is_on_topic |-> FALSE,
   detected_category |-> <<>>, is_appropriate |-> FALSE, concerns |-> <<>>, confidence |-> 1]

TopicOutcomes ==
  {TopicVerdict(TRUE, TRUE, <<>>, 8),
   TopicVerdict(FALSE, TRUE, <<CONCERN_TONE>>, 4),
   TopicRaises}

ModVerdict(safe, flags) ==
  [raises |-> FALSE, error |-> <<>>, is_safe |-> safe, flagged_categories |-> flags]

ModOutcomes ==
  {ModVerdict(TRUE, <<>>),
   ModVerdict(FALSE, <<FLAG_SPAM>>)}

ApiOutcomes ==
  {[kind |-> "ok", id |-> PLATFORM_ID, error |-> <<>>],
   [kind |-> "tweepy_error", id |-> <<>>, error |-> ERR_FORBIDDEN],
   [kind |-> "other_error", id |-> <<>>, error |-> ERR_CONNECTION]}

\* ------------------------------------------------------------------------
\* The workflow as a state machine
\* ------------------------------------------------------------------------

\* no function-level input or output: the value both have in a workflow run
None ==
  <<>>

\* number of executions of a node so far
Executions(node) ==
  Cardinality({i \in 1..Len(trace) : trace[i] = node})

\* social_engager_agent.ainvoke({"messages": [...]})
Init ==
  /\ pc = "discover_topic"
  /\ state = [messages |-> <<"Start daily tweet generation">>,
              key_insights |-> <<>>, sources |-> <<>>, validation_errors |-> <<>>]
  /\ environ \in Environments
  /\ workflow_log = <<>>
  /\ tweet_log = <<>>
  /\ create_tweet_calls = <<>>
  /\ blocklist = ImportedBlocklist
  /\ trace = <<>>
  /\ passes = <<>>
  /\ input = None
  /\ output = None

\* one executor step: run the node, merge its update, follow the edge
Ran(node, out, next) ==
  /\ state' = Merge(state, out.update)
  /\ workflow_log' = workflow_log \o out.log
  /\ trace' = Append(trace, node)
  /\ pc' = next

DiscoverTopicOn(outcomes) ==
  /\ pc = "discover_topic"
  /\ \E agent \in outcomes :
       \E out \in {discover_topic(state, agent)} :
         Ran("discover_topic", out, "research_topic")
  /\ UNCHANGED <<environ, tweet_log, create_tweet_calls, blocklist, passes, input, output>>

ResearchTopicOn(outcomes) ==
  /\ pc = "research_topic"
  /\ \E agent \in outcomes :
       \E out \in {research_topic(state, agent)} :
         Ran("research_topic", out, "generate_tweet")
  /\ UNCHANGED <<environ, tweet_log, create_tweet_calls, blocklist, passes, input, output>>

GenerateTweetOn(outcomes) ==
  /\ pc = "generate_tweet"
  /\ Executions("generate_tweet") < MaxDrafts
  /\ \E agent \in outcomes :
       \E out \in {generate_tweet(state, agent)} :
         Ran("generate_tweet", out, "validate_content")
  /\ UNCHANGED <<environ, tweet_log, create_tweet_calls, blocklist, passes, input, output>>

\* validate_content (with its three checker calls) followed by the conditional
\* edge should_post_or_regenerate, which the executor evaluates on the merged
\* state
ValidateContentOn(topic_outcomes, mod_outcomes) ==
  /\ pc = "validate_content"
  /\ \E tweet \in {Get(state, "generated_tweet", <<>>)} :
     \E keyword \in {check_keyword_blocklist(tweet)} :
     \E topic_llm \in topic_outcomes, mod_llm \in mod_outcomes :
     \E topic \in {validate_tweet_content(tweet, Get(state, "topic_category", CAT_AI),
                                         topic_llm)} :
     \E mod \in {check_content_safety(tweet, mod_llm)} :
     \E out \in {validate_content(state, topic, mod, keyword)} :
     \E merged \in {Merge(state, out.update)} :
       /\ Ran("validate_content", out, should_post_or_regenerate(merged))
       /\ passes' = Append(passes,
            [tweet |-> tweet, topic |-> topic[1], moderation |-> mod[1],
             keyword |-> keyword[1], reasons |-> keyword[2],
             regenerations |-> Executions("regenerate_tweet"),
             calls |-> out.calls,
             topic_reasons |-> topic[2], moderation_reasons |-> mod[2],
             topic_raised |-> validation_model_called(tweet) /\ topic_llm.raises,
             moderation_raised |-> moderation_model_called(tweet) /\ mod_llm.raises,
             prior_errors |-> Get(state, "validation_errors", <<>>),
             produced |-> out.update.validation_errors,
             is_safe |-> out.update.is_safe,
             route |-> should_post_or_regenerate(merged)])
  /\ UNCHANGED <<environ, tweet_log, create_tweet_calls, blocklist, input, output>>

RegenerateTweet ==
  /\ pc = "regenerate_tweet"
  /\ \E out \in {regenerate_tweet(state)} :
       Ran("regenerate_tweet", out, "generate_tweet")
  /\ UNCHANGED <<environ, tweet_log, create_tweet_calls, blocklist, passes, input, output>>

PostContentOn(outcomes) ==
  /\ pc = "post_content"
  /\ \E api \in outcomes :
       \E out \in {post_content(state, environ, api)} :
           /\ Ran("post_content", out, "__end__")
           /\ tweet_log' = tweet_log \o out.call.log
           /\ create_tweet_calls' =
                IF out.call.called
                  THEN Append(create_tweet_calls, Get(state, "generated_tweet", <<>>))
                  ELSE create_tweet_calls
  /\ UNCHANGED <<environ, blocklist, passes, input, output>>

PostContent ==
  PostContentOn(ApiOutcomes)

DiscoverTopic ==
  DiscoverTopicOn(DiscoverOutcomes)

ResearchTopic ==
  ResearchTopicOn(ResearchOutcomes)

GenerateTweet ==
  GenerateTweetOn(DraftOutcomes)

ValidateContent ==
  ValidateContentOn(TopicOutcomes, ModOutcomes)

Next ==
  \/ DiscoverTopic
  \/ ResearchTopic
  \/ GenerateTweet
  \/ ValidateContent
  \/ RegenerateTweet
  \/ PostContent

Spec ==
  Init /\ [][Next]_vars

\* ------------------------------------------------------------------------
\* The retry cycle on its own: the same steps with Discover and Research
\* succeeding and fewer collaborator outcomes, so that long retry chains are
\* explored in full. The executor runs the next node whenever there is one.
\* ------------------------------------------------------------------------

\* the collaborator outcomes of the retry cycle
RetryDiscoverOutcomes ==
  {o \in DiscoverOutcomes : ~o.raises}

RetryResearchOutcomes ==
  {o \in ResearchOutcomes : ~o.raises}

RetryDraftOutcomes ==
  {DraftResult(TWEET_CLEAN, STYLE_INFORMATIVE),
   DraftResult(TWEET_FAKE, STYLE_INFORMATIVE)}

RetryTopicOutcomes ==
  {TopicVerdict(TRUE, TRUE, <<>>, 8), TopicRaises}

RetryModOutcomes ==
  {ModVerdict(TRUE, <<>>)}

RetryDiscoverTopic ==
  DiscoverTopicOn(RetryDiscoverOutcomes)

RetryResearchTopic ==
  ResearchTopicOn(RetryResearchOutcomes)

RetryGenerateTweet ==
  GenerateTweetOn(RetryDraftOutcomes)

RetryValidateContent ==
  ValidateContentOn(RetryTopicOutcomes, RetryModOutcomes)

RetryNext ==
  \/ RetryDiscoverTopic
  \/ RetryResearchTopic
  \/ RetryGenerateTweet
  \/ RetryValidateContent
  \/ RegenerateTweet
  \/ PostContent

RetrySpec ==
  Init /\ [][RetryNext]_vars /\ WF_vars(RetryNext)

\* ------------------------------------------------------------------------
\* The retry decision on its own: should_post_or_regenerate applied to
\* states with every combination of is_safe and of validation_errors made of
\* markers and other reasons
\* ------------------------------------------------------------------------

\* the longest validation_errors list given to the decision function
MaxErrors == 4

ErrorKinds ==
  {"marker", "phrase", "failure"}

\* an entry of validation_errors of the given kind (i numbers the markers)
ErrorText(kind, i) ==
  CASE kind = "marker" -> S_RegenerationAttempt \o <<" ">> \o IntToStr(i)
    [] kind = "phrase" -> S_PhrasePrefix \o BLOCKED_PHRASES[1]
    [] kind = "failure" -> S_TweetGenFailed \o ERR_TIMEOUT

RouterInputs ==
  {[is_safe |-> s, shape |-> sh] :
     s \in {"true", "false", "unset"},
     sh \in UNION {[1..n -> ErrorKinds] : n \in 0..MaxErrors}}

RouterState(in) ==
  LET errors == [i \in 1..Len(in.shape) |-> ErrorText(in.shape[i], i)]
  IN  IF in.is_safe = "unset" THEN [validation_errors |-> errors]
      ELSE [is_safe |-> (in.is_safe = "true"), validation_errors |-> errors]

RouterInit ==
  /\ input \in RouterInputs
  /\ state = RouterState(input)
  /\ pc = "route"
  /\ output = None
  /\ environ = NoEnv
  /\ workflow_log = <<>>
  /\ tweet_log = <<>>
  /\ create_tweet_calls = <<>>
  /\ blocklist = ImportedBlocklist
  /\ trace = <<>>
  /\ passes = <<>>

Route ==
  /\ pc = "route"
  /\ output' = should_post_or_regenerate(state)
  /\ pc' = output'
  /\ UNCHANGED <<state, environ, workflow_log, tweet_log, create_tweet_calls, blocklist,
                 trace, passes, input>>

RouterNext ==
  Route

RouterSpec ==
  RouterInit /\ [][RouterNext]_vars

\* ------------------------------------------------------------------------
\* One Validate pass on its own: validate_content and the conditional edge
\* applied to states holding every kind of draft (empty, blank, at and over
\* the length limit, with blocked phrases and patterns in either case), with
\* and without errors of an earlier pass, under every collaborator outcome
\* including the ones that raise
\* ------------------------------------------------------------------------

TWEET_BLANK ==
  <<" "," ">>

TWEET_SHOUT ==
  <<"A","I"," ","b","e","a","t","s"," ","F","A","K","E"," ","N","e","w","s">>

TWEET_VOTE ==
  <<"V","o","t","e"," ","f","o","r"," ","A","I">>

TWEET_CULTURE ==
  <<"A","I"," ","c","u","l","t","u","r","e"," ","w","a","r">>

TWEET_WARM ==
  <<"A","I"," ","w","a","r","m","s"," ","h","e","a","r","t","s">>

\* a draft of exactly n characters
TweetOfLength(n) ==
  [i \in 1..n |-> "a"]

TWEET_AT_LIMIT ==
  TweetOfLength(TWEET_LIMIT)

TWEET_OVER_LIMIT ==
  TweetOfLength(TWEET_LIMIT + 1)

ValidateTweets ==
  {<<>>, TWEET_BLANK, TWEET_CLEAN, TWEET_FAKE, TWEET_SHOUT, TWEET_VOTE, TWEET_CULTURE,
   TWEET_WARM, TWEET_AT_LIMIT, TWEET_OVER_LIMIT}

\* validation_errors before the pass: none, or what a failed pass and one
\* regeneration have left
PriorErrors ==
  {<<>>, <<ErrorText("phrase", 1), ErrorText("marker", 1)>>}

\* the moderation model call raises (what it would have answered is unused)
ModRaises ==
  [raises |-> TRUE, error |-> ERR_TIMEOUT, is_safe |-> TRUE, flagged_categories |-> <<>>]

ValidateModOutcomes ==
  ModOutcomes \cup {ModRaises}

ValidateInit ==
  /\ pc = "validate_content"
  /\ \E tweet \in ValidateTweets, errors \in PriorErrors :
       /\ state = [messages |-> <<"Start daily tweet generation">>,
                   key_insights |-> <<>>, sources |-> <<>>,
                   selected_topic |-> TOPIC_NEWS, topic_category |-> CAT_AI,
                   generated_tweet |-> tweet, validation_errors |-> errors]
       /\ input = [tweet |-> tweet, validation_errors |-> errors]
  /\ environ \in Environments
  /\ workflow_log = <<>>
  /\ tweet_log = <<>>
  /\ create_tweet_calls = <<>>
  /\ blocklist = ImportedBlocklist
  /\ trace = <<>>
  /\ passes = <<>>
  /\ output = None

ValidatePass ==
  ValidateContentOn(TopicOutcomes, ValidateModOutcomes)

ValidateNext ==
  ValidatePass

ValidateSpec ==
  ValidateInit /\ [][ValidateNext]_vars

\* ------------------------------------------------------------------------
\* The keyword filter on its own: check_keyword_blocklist called on a few
\* texts while add_blocked_pattern and add_blocked_phrase extend the module
\* globals between the calls. output is the list of calls made so far:
\* the text, the globals before and after the call, and what was returned.
\* ------------------------------------------------------------------------

\* the largest number of entries added to the blocklist
MaxAdded == 2

\* the largest number of calls of check_keyword_blocklist
MaxFilterCalls == 2

ADDED_PHRASE ==
  <<"a","i"," ","a","g","e","n","t","s">>

ADDED_PATTERN ==
  <<"\\","b","(","h","e","l","p","|","h","e","l","p","s",")","\\","b">>

BlocklistTexts ==
  {<<>>, TWEET_CLEAN, TWEET_SHOUT, TWEET_CULTURE, TWEET_WARM}

\* number of entries added since the module was imported
Added ==
  (Len(blocklist.BLOCKED_PATTERNS) - Len(BLOCKED_PATTERNS))
    + (Len(blocklist.BLOCKED_PHRASES) - Len(BLOCKED_PHRASES))

BlocklistInit ==
  /\ pc = "keyword_filter"
  /\ state = NoEnv
  /\ environ = NoEnv
  /\ workflow_log = <<>>
  /\ tweet_log = <<>>
  /\ create_tweet_calls = <<>>
  /\ blocklist = ImportedBlocklist
  /\ trace = <<>>
  /\ passes = <<>>
  /\ input = None
  /\ output = None

\* variant: the call records the phrases it found as new blocked phrases
CheckKeywordBlocklist_learning ==
  /\ pc = "keyword_filter"
  /\ Len(output) < MaxFilterCalls
  /\ \E text \in BlocklistTexts :
       \E result \in {check_keyword_blocklist(text)} :
         /\ blocklist' = [blocklist EXCEPT !.BLOCKED_PHRASES = @ \o result[2]]
         /\ output' = Append(output, [text |-> text, before |-> blocklist,
                                      result |-> result, after |-> blocklist'])
  /\ trace' = Append(trace, "check_keyword_blocklist")
  /\ UNCHANGED <<pc, state, environ, workflow_log, tweet_log, create_tweet_calls, passes,
                 input>>

CheckKeywordBlocklist ==
  /\ pc = "keyword_filter"
  /\ Len(output) < MaxFilterCalls
  /\ \E text \in BlocklistTexts :
       \E result \in {check_keyword_blocklist(text)} :
         /\ blocklist' = blocklist
         /\ output' = Append(output, [text |-> text, before |-> blocklist,
                                      result |-> result, after |-> blocklist'])
  /\ trace' = Append(trace, "check_keyword_blocklist")
  /\ UNCHANGED <<pc, state, environ, workflow_log, tweet_log, create_tweet_calls, passes,
                 input>>

AddBlockedPattern ==
  /\ pc = "keyword_filter"
  /\ Added < MaxAdded
  /\ blocklist' = add_blocked_pattern(ADDED_PATTERN)
  /\ trace' = Append(trace, "add_blocked_pattern")
  /\ UNCHANGED <<pc, state, environ, workflow_log, tweet_log, create_tweet_calls, passes,
                 input, output>>

AddBlockedPhrase ==
  /\ pc = "keyword_filter"
  /\ Added < MaxAdded
  /\ blocklist' = add_blocked_phrase(ADDED_PHRASE)
  /\ trace' = Append(trace, "add_blocked_phrase")
  /\ UNCHANGED <<pc, state, environ, workflow_log, tweet_log, create_tweet_calls, passes,
                 input, output>>

BlocklistNext ==
  \/ CheckKeywordBlocklist
  \/ AddBlockedPattern
  \/ AddBlockedPhrase

BlocklistSpec ==
  BlocklistInit /\ [][BlocklistNext]_vars

\* ------------------------------------------------------------------------
\* The pattern list on its own: add_blocked_pattern called with patterns
\* that compile and with one that does not, and check_keyword_blocklist
\* called on the lists the calls have left
\* ------------------------------------------------------------------------

\* the largest number of calls of add_blocked_pattern
MaxPatternCalls == 2

\* a pattern whose group is never closed
INVALID_PATTERN ==
  <<"\\","b","(","w","a","r","m","s">>

PatternInit ==
  BlocklistInit

\* add_blocked_pattern(pattern); a re.error goes to the caller
AddPattern ==
  /\ pc = "keyword_filter"
  /\ Executions("add_blocked_pattern") < MaxPatternCalls
  /\ \E pattern \in {ADDED_PATTERN, INVALID_PATTERN} :
       blocklist' = add_blocked_pattern(pattern)
  /\ trace' = Append(trace, "add_blocked_pattern")
  /\ UNCHANGED <<pc, state, environ, workflow_log, tweet_log, create_tweet_calls, passes,
                 input, output>>

PatternNext ==
  \/ AddPattern
  \/ CheckKeywordBlocklist

PatternSpec ==
  PatternInit /\ [][PatternNext]_vars

\* ------------------------------------------------------------------------
\* agents/tweet_generator.py: how the Draft agent puts text and hashtags
\* together, on the structured path and on the fallback path
\* ------------------------------------------------------------------------

CAT_SCIENCE ==
  <<"s","c","i","e","n","c","e">>

CAT_POSITIVE_NEWS ==
  <<"p","o","s","i","t","i","v","e","_","n","e","w","s">>

\* a category outside the configured ones
CAT_OTHER ==
  <<"s","p","o","r","t","s">>

\* " ".join([f"#{tag}" for tag in tags[:n]])
HashtagsStr(tags, n) ==
  Join([i \in 1..(IF Len(tags) < n THEN Len(tags) ELSE n) |-> <<"#">> \o tags[i]], <<" ">>)

\* variant: the hashtags are appended whether or not there is room
format_tweet_always_tagged(tweet_text, hashtags) ==
  Strip(tweet_text \o <<" ">> \o HashtagsStr(hashtags, 3))

\* generate_tweet of the agent, after the structured model has answered: the
\* final tweet made of tweet_content.tweet_text and tweet_content.hashtags
format_tweet(tweet_text, hashtags) ==
  LET hashtags_str == HashtagsStr(hashtags, 3)
  IN  IF Len(tweet_text) + Len(hashtags_str) + 1 <= 280
        THEN Strip(tweet_text \o <<" ">> \o hashtags_str)
        ELSE tweet_text

\* category_hashtags.get(topic_category, ["Tech"])
category_hashtags(topic_category) ==
  CASE topic_category = CAT_AI -> <<<<"A","I">>, <<"A","r","t","i","f","i","c","i","a","l","I","n","t","e","l","l","i","g","e","n","c","e">>>>
    [] topic_category = CAT_SCIENCE -> <<<<"S","c","i","e","n","c","e">>, <<"R","e","s","e","a","r","c","h">>>>
    [] topic_category = CAT_TECHNOLOGY -> <<<<"T","e","c","h">>, <<"I","n","n","o","v","a","t","i","o","n">>>>
    [] topic_category = CAT_POSITIVE_NEWS -> <<<<"G","o","o","d","N","e","w","s">>, <<"P","r","o","g","r","e","s","s">>>>
    [] OTHER -> <<<<"T","e","c","h">>>>

\* generate_fallback_tweet: the final tweet made of the model's plain answer
\* (or nothing, when that call raises too)
generate_fallback_tweet(topic_category, response) ==
  IF response.raises THEN <<>>
  ELSE
    LET stripped == Strip(response.content)
        tweet_text == SubSeq(stripped, 1, IF Len(stripped) < 250 THEN Len(stripped) ELSE 250)
        hashtags_str == HashtagsStr(category_hashtags(topic_category), 2)
    IN  IF Len(tweet_text) + Len(hashtags_str) + 1 <= 280
          THEN tweet_text \o <<" ">> \o hashtags_str
          ELSE tweet_text

\* texts the structured model may return: up to the 280 characters its schema
\* allows, around the lengths at which one and three hashtags stop fitting
DraftTexts ==
  {TweetOfLength(n) : n \in {0, 1, 250, 267, 268, 276, 277, 280}}

\* hashtag lists the structured model may return
DraftHashtags ==
  {<<>>, <<TAG_AI>>, <<<<"A","I">>, <<"M","L">>, <<"L","L","M">>>>, <<<<"A","I">>, <<"M","L">>, <<"L","L","M">>, <<"T","e","c","h">>>>, <<<<"A","r","t","i","f","i","c","i","a","l","I","n","t","e","l","l","i","g","e","n","c","e">>>>}

\* answers of the plain model on the fallback path: short, padded with white
\* space, exactly 250 characters, and longer
FallbackAnswers ==
  {[raises |-> FALSE, content |-> TweetOfLength(n)] : n \in {0, 10, 250, 300}}
  \cup {[raises |-> FALSE, content |-> <<" ">> \o TweetOfLength(260) \o <<"\n">>],
        [raises |-> TRUE, content |-> <<>>]}

DraftInit ==
  /\ pc = "tweet_generator"
  /\ state = NoEnv
  /\ environ = NoEnv
  /\ workflow_log = <<>>
  /\ tweet_log = <<>>
  /\ create_tweet_calls = <<>>
  /\ blocklist = ImportedBlocklist
  /\ trace = <<>>
  /\ passes = <<>>
  /\ input \in
       {[structured |-> TRUE, tweet_text |-> t, hashtags |-> h, topic_category |-> CAT_AI,
         response |-> [raises |-> FALSE, content |-> <<>>]] :
          t \in DraftTexts, h \in DraftHashtags}
       \cup
       {[structured |-> FALSE, tweet_text |-> <<>>, hashtags |-> <<>>, topic_category |-> c,
         response |-> r] :
          c \in {CAT_AI, CAT_SCIENCE, CAT_TECHNOLOGY, CAT_POSITIVE_NEWS, CAT_OTHER},
          r \in FallbackAnswers}
  /\ output = None

\* the structured model answered: generate_tweet formats its answer
StructuredDraft ==
  /\ pc = "tweet_generator"
  /\ input.structured
  /\ output' = [generated_tweet |-> format_tweet(input.tweet_text, input.hashtags),
                hashtags |-> input.hashtags]
  /\ pc' = "__end__"
  /\ trace' = Append(trace, "generate_tweet")
  /\ UNCHANGED <<state, environ, workflow_log, tweet_log, create_tweet_calls, blocklist,
                 passes, input>>

\* the structured model raised: generate_tweet hands over to
\* generate_fallback_tweet
FallbackDraft ==
  /\ pc = "tweet_generator"
  /\ ~input.structured
  /\ output' = [generated_tweet |-> generate_fallback_tweet(input.topic_category,
                                                            input.response),
                hashtags |-> IF input.response.raises THEN <<>>
                             ELSE category_hashtags(input.topic_category)]
  /\ pc' = "__end__"
  /\ trace' = Append(trace, "generate_fallback_tweet")
  /\ UNCHANGED <<state, environ, workflow_log, tweet_log, create_tweet_calls, blocklist,
                 passes, input>>

DraftNext ==
  \/ StructuredDraft
  \/ FallbackDraft

DraftSpec ==
  DraftInit /\ [][DraftNext]_vars

\* ------------------------------------------------------------------------
\* agents/research_agent.py: the research sub-workflow
\*   START -> research_llm_call -> (research_tool_node -> research_llm_call)*
\*         -> compress_research -> END
\* A message is [type, tool_calls]; tool_calls is the list of the names of
\* the tools an answer of the model asks for.
\* ------------------------------------------------------------------------

MAX_RESEARCH_ITERATIONS ==
  5

tools_by_name ==
  {"tavily_search", "think_tool"}

\* variant: the number of iterations is not looked at
should_continue_research_unlimited(st) ==
  LET messages == Get(st, "researcher_messages", <<>>)
  IN  IF messages = <<>> THEN "compress_research"
      ELSE IF messages[Len(messages)].tool_calls # <<>> THEN "research_tool_node"
      ELSE "compress_research"

should_continue_research(st) ==
  LET messages == Get(st, "researcher_messages", <<>>)
      iterations == Get(st, "tool_call_iterations", 0)
  IN  IF messages = <<>> THEN "compress_research"
      ELSE IF iterations >= MAX_RESEARCH_ITERATIONS THEN "compress_research"
      ELSE IF messages[Len(messages)].tool_calls # <<>> THEN "research_tool_node"
      ELSE "compress_research"

\* the state after research_llm_call returned {"researcher_messages": [response]}
research_llm_call(st, response) ==
  [k \in (DOMAIN st) \cup {"researcher_messages"} |->
     IF k = "researcher_messages"
       THEN Append(Get(st, "researcher_messages", <<>>), response)
       ELSE st[k]]

\* the state after research_tool_node: one tool message per known tool of
\* the last message, one raw note per search, and one more iteration
research_tool_node(st) ==
  LET messages == Get(st, "researcher_messages", <<>>)
      calls == messages[Len(messages)].tool_calls
      known == SelectSeq(calls, LAMBDA name : name \in tools_by_name)
      tool_outputs == [i \in 1..Len(known) |-> [type |-> "tool", tool_calls |-> <<>>]]
      raw_notes == SelectSeq(calls, LAMBDA name : name = "tavily_search")
  IN  [k \in (DOMAIN st) \cup {"researcher_messages", "raw_notes", "tool_call_iterations"} |->
         CASE k = "researcher_messages" -> messages \o tool_outputs
           [] k = "raw_notes" -> Get(st, "raw_notes", <<>>) \o raw_notes
           [] k = "tool_call_iterations" -> Get(st, "tool_call_iterations", 0) + 1
           [] OTHER -> st[k]]

\* the state after compress_research: the summary of the structured model, or
\* the raw notes when that call raises
compress_research(st, compressed) ==
  [k \in (DOMAIN st) \cup {"compressed_research", "key_insights"} |->
     CASE k = "compressed_research" ->
            IF compressed.raises THEN "raw notes" ELSE "summary"
       [] k = "key_insights" ->
            Get(st, "key_insights", <<>>)
              \o (IF compressed.raises
                    THEN <<"Research completed but compression failed">>
                    ELSE <<"key fact", "tweet angle">>)
       [] OTHER -> st[k]]

\* answers of the research model: a final answer, a search, a thought with
\* a tool the agent does not have, or an error of the call
ResearchResponses ==
  {[raises |-> FALSE, tool_calls |-> <<>>],
   [raises |-> FALSE, tool_calls |-> <<"tavily_search">>],
   [raises |-> FALSE, tool_calls |-> <<"think_tool", "web_browser">>],
   [raises |-> TRUE, tool_calls |-> <<>>]}

\* research_agent.ainvoke({"research_topic": topic, "topic_category": category})
ResearchInit ==
  /\ pc = "research_llm_call"
  /\ state = [research_topic |-> "topic", topic_category |-> "ai"]
  /\ environ = NoEnv
  /\ workflow_log = <<>>
  /\ tweet_log = <<>>
  /\ create_tweet_calls = <<>>
  /\ blocklist = ImportedBlocklist
  /\ trace = <<>>
  /\ passes = <<>>
  /\ input = None
  /\ output = None

\* research_llm_call and the conditional edge that follows it; an error of
\* the model call leaves the sub-workflow through ainvoke
ResearchLlmCall ==
  /\ pc = "research_llm_call"
  /\ \E response \in ResearchResponses :
       IF response.raises
         THEN /\ pc' = "raised"
              /\ state' = state
         ELSE \E st \in {research_llm_call(state, [type |-> "ai",
                                                   tool_calls |-> response.tool_calls])} :
                /\ state' = st
                /\ pc' = should_continue_research(st)
  /\ trace' = Append(trace, "research_llm_call")
  /\ UNCHANGED <<environ, workflow_log, tweet_log, create_tweet_calls, blocklist, passes,
                 input, output>>

ResearchToolNode ==
  /\ pc = "research_tool_node"
  /\ state' = research_tool_node(state)
  /\ pc' = "research_llm_call"
  /\ trace' = Append(trace, "research_tool_node")
  /\ UNCHANGED <<environ, workflow_log, tweet_log, create_tweet_calls, blocklist, passes,
                 input, output>>

CompressResearch ==
  /\ pc = "compress_research"
  /\ \E raises \in BOOLEAN :
       state' = compress_research(state, [raises |-> raises])
  /\ pc' = "__end__"
  /\ trace' = Append(trace, "compress_research")
  /\ UNCHANGED <<environ, workflow_log, tweet_log, create_tweet_calls, blocklist, passes,
                 input, output>>

ResearchNext ==
  \/ ResearchLlmCall
  \/ ResearchToolNode
  \/ CompressResearch

ResearchSpec ==
  ResearchInit /\ [][ResearchNext]_vars /\ WF_vars(ResearchNext)

\* ------------------------------------------------------------------------
\* agents/trend_discovery.py: the trend-discovery sub-workflow
\*   START -> discover_trends -> (process_tools -> discover_trends)*
\*         -> select_topic -> END
\* discover_trends and process_tools route with Command(goto=...). The run
\* is started by trend_discovery_agent.ainvoke without a config, so the
\* runtime ends it with GraphRecursionError once its default number of
\* supersteps has been used up.
\* ------------------------------------------------------------------------

\* LangGraph's default recursion_limit
RECURSION_LIMIT ==
  25

discovery_tools_by_name ==
  {"tavily_news_search", "think_tool"}

\* discover_trends: the update and the node to go to
discover_trends(st, response) ==
  [goto |-> IF response.tool_calls # <<>> THEN "process_tools" ELSE "select_topic",
   update |-> [messages |-> <<[type |-> "ai", tool_calls |-> response.tool_calls]>>]]

\* process_tools: one tool message per known tool of the last message and
\* one discovered topic per news search
process_tools(st) ==
  LET messages == Get(st, "messages", <<>>)
      calls == messages[Len(messages)].tool_calls
      known == SelectSeq(calls, LAMBDA name : name \in discovery_tools_by_name)
  IN  [goto |-> "discover_trends",
       update |-> [messages |-> [i \in 1..Len(known) |-> [type |-> "tool", tool_calls |-> <<>>]],
                   discovered_topics |->
                     SelectSeq(calls, LAMBDA name : name = "tavily_news_search")]]

\* select_topic: a fallback topic when nothing was discovered or when the
\* selection model raises, its selection otherwise
select_topic(st, selection) ==
  IF Get(st, "discovered_topics", <<>>) = <<>> \/ selection.raises
    THEN [selected_topic |-> "fallback topic"]
    ELSE [selected_topic |-> "selected topic"]

\* the channels of DiscoveryState after an update: messages and
\* discovered_topics append, the others keep the last value
DiscoveryMerge(st, update) ==
  [k \in (DOMAIN st) \cup (DOMAIN update) |->
     IF k \notin DOMAIN update THEN st[k]
     ELSE IF k \in {"messages", "discovered_topics"} /\ k \in DOMAIN st
       THEN st[k] \o update[k]
     ELSE update[k]]

\* answers of the discovery model: a final answer, a news search, a thought
\* with a tool the agent does not have, or an error of the call
DiscoveryResponses ==
  {[raises |-> FALSE, tool_calls |-> <<>>],
   [raises |-> FALSE, tool_calls |-> <<"tavily_news_search">>],
   [raises |-> FALSE, tool_calls |-> <<"think_tool", "web_browser">>],
   [raises |-> TRUE, tool_calls |-> <<>>]}

\* trend_discovery_agent.ainvoke({"messages": [HumanMessage(...)]})
DiscoveryInit ==
  /\ pc = "discover_trends"
  /\ state = [messages |-> <<[type |-> "human", tool_calls |-> <<>>]>>]
  /\ environ = NoEnv
  /\ workflow_log = <<>>
  /\ tweet_log = <<>>
  /\ create_tweet_calls = <<>>
  /\ blocklist = ImportedBlocklist
  /\ trace = <<>>
  /\ passes = <<>>
  /\ input = None
  /\ output = None

\* an error of the model call leaves the sub-workflow through ainvoke
DiscoverTrends ==
  /\ pc = "discover_trends"
  /\ Len(trace) < RECURSION_LIMIT
  /\ \E response \in DiscoveryResponses :
       IF response.raises
         THEN /\ pc' = "raised"
              /\ state' = state
         ELSE \E command \in {discover_trends(state, response)} :
                /\ state' = DiscoveryMerge(state, command.update)
                /\ pc' = command.goto
  /\ trace' = Append(trace, "discover_trends")
  /\ UNCHANGED <<environ, workflow_log, tweet_log, create_tweet_calls, blocklist, passes,
                 input, output>>

ProcessTools ==
  /\ pc = "process_tools"
  /\ Len(trace) < RECURSION_LIMIT
  /\ \E command \in {process_tools(state)} :
       /\ state' = DiscoveryMerge(state, command.update)
       /\ pc' = command.goto
  /\ trace' = Append(trace, "process_tools")
  /\ UNCHANGED <<environ, workflow_log, tweet_log, create_tweet_calls, blocklist, passes,
                 input, output>>

SelectTopic ==
  /\ pc = "select_topic"
  /\ Len(trace) < RECURSION_LIMIT
  /\ \E raises \in BOOLEAN :
       state' = DiscoveryMerge(state, select_topic(state, [raises |-> raises]))
  /\ pc' = "__end__"
  /\ trace' = Append(trace, "select_topic")
  /\ UNCHANGED <<environ, workflow_log, tweet_log, create_tweet_calls, blocklist, passes,
                 input, output>>

\* the runtime: a node is still to run and the supersteps are used up
GraphRecursionError ==
  /\ pc \in {"discover_trends", "process_tools", "select_topic"}
  /\ Len(trace) >= RECURSION_LIMIT
  /\ pc' = "out_of_steps"
  /\ UNCHANGED <<state, environ, workflow_log, tweet_log, create_tweet_calls, blocklist,
                 trace, passes, input, output>>

DiscoveryNext ==
  \/ DiscoverTrends
  \/ ProcessTools
  \/ SelectTopic
  \/ GraphRecursionError

DiscoverySpec ==
  DiscoveryInit /\ [][DiscoveryNext]_vars /\ WF_vars(DiscoveryNext)

\* ------------------------------------------------------------------------
\* The Publisher on its own: post_content (and post_tweet under it) applied
\* to states holding a short draft, a draft at the length limit and one over
\* it, in every dry-run setting and under every outcome of the platform
\* call, and invoked again on the same state
\* ------------------------------------------------------------------------

\* the largest number of invocations of post_content on one state
MaxPublisherRuns == 2

ENV_TRUE_CAPS ==
  <<"T","R","U","E">>

\* the text of a platform error that happens to contain the word the
\* publisher looks for in a status message
ERR_MISLEADING ==
  <<"n","o","t"," ","s","u","c","c","e","s","s","f","u","l","l","y"," ","s","e","n","t">>

\* a DRY_RUN value meant as "on" that is not the word "true"
ENV_ONE ==
  <<"1">>

PublisherEnvironments ==
  Environments \cup {[DRY_RUN |-> S_true], [DRY_RUN |-> ENV_TRUE_CAPS], [DRY_RUN |-> ENV_ONE]}

\* a draft whose own text contains the label the publisher looks for when
\* it extracts the content id from a status message
TWEET_QUOTES_ID ==
  <<"T","w","e","e","t"," ","I","D",":"," ","7">>

PublisherTweets ==
  {TWEET_CLEAN, TWEET_AT_LIMIT, TWEET_OVER_LIMIT, TWEET_QUOTES_ID}

PublisherApiOutcomes ==
  ApiOutcomes \cup {[kind |-> "tweepy_error", id |-> <<>>, error |-> ERR_MISLEADING]}

PublisherInit ==
  /\ pc = "post_content"
  /\ \E tweet \in PublisherTweets, errors \in PriorErrors :
       /\ state = [messages |-> <<"Start daily tweet generation">>,
                   key_insights |-> <<>>, sources |-> <<>>,
                   selected_topic |-> TOPIC_NEWS, topic_category |-> CAT_AI,
                   generated_tweet |-> tweet, validation_errors |-> errors,
                   is_safe |-> TRUE]
       /\ input = [tweet |-> tweet, validation_errors |-> errors]
  /\ environ \in PublisherEnvironments
  /\ workflow_log = <<>>
  /\ tweet_log = <<>>
  /\ create_tweet_calls = <<>>
  /\ blocklist = ImportedBlocklist
  /\ trace = <<>>
  /\ passes = <<>>
  /\ output = None

PublisherPost ==
  PostContentOn(PublisherApiOutcomes)

\* post_content is invoked once more on the state the last invocation left
PublisherRerun ==
  /\ pc = "__end__"
  /\ Executions("post_content") < MaxPublisherRuns
  /\ pc' = "post_content"
  /\ UNCHANGED <<state, environ, workflow_log, tweet_log, create_tweet_calls, blocklist,
                 trace, passes, input, output>>

PublisherNext ==
  \/ PublisherPost
  \/ PublisherRerun

PublisherSpec ==
  PublisherInit /\ [][PublisherNext]_vars

\* ------------------------------------------------------------------------
\* The fallback paths: every step of the workflow with the collaborators of
\* Discover, Research and Draft succeeding or raising, the discovery agent
\* also selecting an empty topic, and fewer validator outcomes. The executor
\* runs the next node whenever there is one.
\* ------------------------------------------------------------------------

\* the outcomes of trend_discovery_agent: those of the workflow and a topic
\* selection whose selected_topic is the empty string (TopicSelection puts no
\* constraint on the text the model returns)
FallbackDiscoverOutcomes ==
  DiscoverOutcomes \cup
    {[raises |-> FALSE, error |-> <<>>,
      result |-> [selected_topic |-> <<>>, topic_category |-> CAT_AI,
                  topic_context |-> <<>>]]}

FallbackDiscoverTopic ==
  DiscoverTopicOn(FallbackDiscoverOutcomes)

\* the Draft agent raising, or returning the clean draft
FallbackDraftOutcomes ==
  {o \in DraftOutcomes : o.raises \/ o = DraftResult(TWEET_CLEAN, STYLE_INFORMATIVE)}

FallbackGenerateTweet ==
  GenerateTweetOn(FallbackDraftOutcomes)

FallbackNext ==
  \/ FallbackDiscoverTopic
  \/ ResearchTopic
  \/ FallbackGenerateTweet
  \/ RetryValidateContent
  \/ RegenerateTweet
  \/ PostContent

FallbackSpec ==
  Init /\ [][FallbackNext]_vars /\ WF_vars(FallbackNext)

\* ------------------------------------------------------------------------
\* The triggers: cli.py (main, run_once) and function_app.py
\* (run_manual_trigger) around run_social_engager. A trigger applies its
\* dry-run override to the process environment, runs the workflow and turns
\* the record it gets back into an exit code or an HTTP response.
\* ------------------------------------------------------------------------

\* the fields of WorkflowOutputState
OUTPUT_KEYS ==
  {"selected_topic", "topic_category", "generated_tweet", "is_posted", "post_result",
   "tweet_id"}

\* run_social_engager(): the value of social_engager_agent.ainvoke, the
\* final state projected on the output schema; a channel no node has written
\* has no value and is left out of the record
run_social_engager(st) ==
  [k \in OUTPUT_KEYS \cap DOMAIN st |-> st[k]]

\* run_once(): the exit code computed from the returned record
run_once(result) ==
  IF Get(result, "is_posted", FALSE) \/ Contains(Get(result, "post_result", <<>>), S_DRY_RUN)
    THEN 0
    ELSE 1

\* run_manual_trigger(req): the HTTP response built from the returned record
run_manual_trigger(result) ==
  [status_code |-> 200,
   body |-> [success |-> TRUE,
             topic |-> Get(result, "selected_topic", <<>>),
             category |-> Get(result, "topic_category", <<>>),
             tweet |-> Get(result, "generated_tweet", <<>>),
             posted |-> Get(result, "is_posted", FALSE),
             post_result |-> Get(result, "post_result", <<>>),
             tweet_id |-> Get(result, "tweet_id", <<>>)]]

\* str(value) of a JSON boolean
PyStr(value) ==
  IF value THEN <<"T","r","u","e">> ELSE <<"F","a","l","s","e">>

\* the invocations: the CLI with no flag, --live or --dry-run, and the manual
\* HTTP trigger with no body or a body carrying a boolean dry_run
Invocations ==
  {[trigger |-> "cli", live |-> l, dry_run |-> d, body |-> NoEnv] :
     <<l, d>> \in {<<FALSE, FALSE>>, <<TRUE, FALSE>>, <<FALSE, TRUE>>}}
  \cup
  {[trigger |-> "http", live |-> FALSE, dry_run |-> FALSE, body |-> b] :
     b \in {NoEnv, [dry_run |-> TRUE], [dry_run |-> FALSE]}}

TriggerInit ==
  /\ pc = "trigger"
  /\ state = NoEnv
  /\ environ \in Environments
  /\ workflow_log = <<>>
  /\ tweet_log = <<>>
  /\ create_tweet_calls = <<>>
  /\ blocklist = ImportedBlocklist
  /\ trace = <<>>
  /\ passes = <<>>
  /\ input \in Invocations
  /\ output = None

\* social_engager_agent.ainvoke({"messages": [...]}) is entered with the
\* environment env
Invoke(env) ==
  /\ pc' = "discover_topic"
  /\ state' = [messages |-> <<"Start daily tweet generation">>,
               key_insights |-> <<>>, sources |-> <<>>, validation_errors |-> <<>>]
  /\ environ' = env
  /\ UNCHANGED <<workflow_log, tweet_log, create_tweet_calls, blocklist, trace, passes,
                 input, output>>

\* main(): --live and --dry-run set DRY_RUN, then run_once() starts the run
Main ==
  /\ pc = "trigger"
  /\ input.trigger = "cli"
  /\ Invoke(IF input.live THEN [DRY_RUN |-> ENV_FALSE]
            ELSE IF input.dry_run THEN [DRY_RUN |-> S_true]
            ELSE environ)

\* run_manual_trigger(req) up to the call of the workflow: a dry_run entry of
\* the body is written to DRY_RUN as str(value).lower()
ManualTrigger ==
  /\ pc = "trigger"
  /\ input.trigger = "http"
  /\ Invoke(IF "dry_run" \in DOMAIN input.body
              THEN [DRY_RUN |-> Lower(PyStr(input.body.dry_run))]
              ELSE environ)

\* the workflow has ended: run_social_engager returns the record and
\* run_once turns it into the exit code
RunOnceReturns ==
  /\ pc = "__end__"
  /\ input.trigger = "cli"
  /\ pc' = "returned"
  /\ \E result \in {run_social_engager(state)} :
       output' = [result |-> result, exit_code |-> run_once(result)]
  /\ UNCHANGED <<state, environ, workflow_log, tweet_log, create_tweet_calls, blocklist,
                 trace, passes, input>>

\* the workflow has ended: run_manual_trigger builds its response
ManualTriggerReturns ==
  /\ pc = "__end__"
  /\ input.trigger = "http"
  /\ pc' = "returned"
  /\ \E result \in {run_social_engager(state)} :
       output' = [result |-> result, response |-> run_manual_trigger(result)]
  /\ UNCHANGED <<state, environ, workflow_log, tweet_log, create_tweet_calls, blocklist,
                 trace, passes, input>>

TriggerNext ==
  \/ Main
  \/ ManualTrigger
  \/ RetryNext
  \/ RunOnceReturns
  \/ ManualTriggerReturns

TriggerSpec ==
  TriggerInit /\ [][TriggerNext]_vars

\* ------------------------------------------------------------------------
\* function_app.py: one worker process serving several invocations.
\* os.environ belongs to the process: what run_manual_trigger writes to
\* DRY_RUN stays there for every invocation that reads it afterwards, in the
\* same thread or in another. The run that is followed enters post_content
\* with a validated draft; post_content is taken in two steps, the call of
\* post_tweet (which reads DRY_RUN and talks to the platform) and the audit
\* record written after it returned (which reads DRY_RUN again), so that
\* another invocation can be served in between.
\*   input:  the environment the process was configured with, and the
\*           trigger and body of the invocation that is followed
\*   passes: per invocation followed, its trigger, whether it carried an
\*           override, and what post_tweet returned to it
\*   output: the value post_tweet returned, until the audit record is
\*           written
\* ------------------------------------------------------------------------

\* the largest number of invocations the process serves
MaxInvocations == 2

\* bodies of POST /api/run: none, or a boolean dry_run
HostBodies ==
  {NoEnv, [dry_run |-> TRUE], [dry_run |-> FALSE]}

\* run_manual_trigger, the override: os.environ["DRY_RUN"] =
\* str(body["dry_run"]).lower() when the body has the entry
dry_run_override(env, body) ==
  IF "dry_run" \in DOMAIN body
    THEN [k \in (DOMAIN env) \cup {"DRY_RUN"} |->
            IF k = "DRY_RUN" THEN Lower(PyStr(body.dry_run)) ELSE env[k]]
    ELSE env

\* invocations served so far
Served ==
  Executions("daily_tweet_timer") + Executions("run_manual_trigger")

HostInit ==
  /\ pc = "idle"
  /\ state = NoEnv
  /\ environ \in Environments
  /\ input = [configured |-> environ, trigger |-> "none", body |-> NoEnv]
  /\ workflow_log = <<>>
  /\ tweet_log = <<>>
  /\ create_tweet_calls = <<>>
  /\ blocklist = ImportedBlocklist
  /\ trace = <<>>
  /\ passes = <<>>
  /\ output = None

\* the workflow of the invocation runs up to post_content with a draft that
\* passed validation
HostRun(trigger, body) ==
  /\ pc' = "post_content"
  /\ state' = [messages |-> <<"Start daily tweet generation">>,
               key_insights |-> <<>>, sources |-> <<>>,
               selected_topic |-> TOPIC_NEWS, topic_category |-> CAT_AI,
               generated_tweet |-> TWEET_CLEAN, validation_errors |-> <<>>,
               is_safe |-> TRUE]
  /\ input' = [input EXCEPT !.trigger = trigger, !.body = body]
  /\ trace' = Append(trace, trigger)
  /\ UNCHANGED <<workflow_log, tweet_log, create_tweet_calls, blocklist, passes, output>>

\* daily_tweet_timer(timer): no override, the workflow is run
DailyTweetTimer ==
  /\ pc = "idle"
  /\ Served < MaxInvocations
  /\ environ' = environ
  /\ HostRun("daily_tweet_timer", NoEnv)

\* run_manual_trigger(req): the override of the body is written to the
\* process environment, then the workflow is run
RunManualTrigger ==
  /\ pc = "idle"
  /\ Served < MaxInvocations
  /\ \E body \in HostBodies :
       /\ environ' = dry_run_override(environ, body)
       /\ HostRun("run_manual_trigger", body)

\* run_manual_trigger(req) of another request, served while the run that is
\* followed is in post_content: its override is written to the same
\* environment (its own workflow run is not followed)
ConcurrentManualTrigger ==
  /\ pc \in {"post_content", "post_tweet_returned"}
  /\ Served < MaxInvocations
  /\ \E body \in HostBodies \ {NoEnv} :
       environ' = dry_run_override(environ, body)
  /\ trace' = Append(trace, "run_manual_trigger")
  /\ UNCHANGED <<pc, state, workflow_log, tweet_log, create_tweet_calls, blocklist, passes,
                 input, output>>

\* post_content up to the return of post_tweet.invoke
HostPostTweet ==
  /\ pc = "post_content"
  /\ \E api \in ApiOutcomes :
       \E call \in {post_tweet(Get(state, "generated_tweet", <<>>),
                               Get(state, "selected_topic", <<>>), environ, api)} :
         /\ output' = call
         /\ tweet_log' = tweet_log \o call.log
         /\ create_tweet_calls' =
              IF call.called
                THEN Append(create_tweet_calls, Get(state, "generated_tweet", <<>>))
                ELSE create_tweet_calls
         /\ passes' = Append(passes, [trigger |-> input.trigger,
                                      overridden |-> "dry_run" \in DOMAIN input.body,
                                      call |-> call])
  /\ pc' = "post_tweet_returned"
  /\ trace' = Append(trace, "post_tweet")
  /\ UNCHANGED <<state, environ, workflow_log, blocklist, input>>

\* the rest of post_content: the audit record and the update; the workflow
\* ends and the trigger function returns
HostPostContent ==
  /\ pc = "post_tweet_returned"
  /\ \E out \in {post_content_result(Get(state, "generated_tweet", <<>>), environ, output)} :
       Ran("post_content", out, "idle")
  /\ output' = None
  /\ UNCHANGED <<environ, tweet_log, create_tweet_calls, blocklist, passes, input>>

HostNext ==
  \/ DailyTweetTimer
  \/ RunManualTrigger
  \/ ConcurrentManualTrigger
  \/ HostPostTweet
  \/ HostPostContent

HostSpec ==
  HostInit /\ [][HostNext]_vars

\* ------------------------------------------------------------------------
\* Properties of the workflow
\* ------------------------------------------------------------------------

PHRASE_FAKE_NEWS ==
  <<"f","a","k","e"," ","n","e","w","s">>

MARKER_ATTEMPT_1 ==
  <<"R","e","g","e","n","e","r","a","t","i","o","n"," ","a","t","t","e","m","p","t"," ","1">>

Ended ==
  pc = "__end__"

\* the node executed last ("none" before the first)
LastNode ==
  IF Len(trace) = 0 THEN "none" ELSE trace[Len(trace)]

LastPass ==
  passes[Len(passes)]

\* all three checkers passed in the Validate pass p
Passed(p) ==
  p.topic /\ p.moderation /\ p.keyword

ValidationErrors ==
  Get(state, "validation_errors", <<>>)

\* C1: every run terminates. Whatever the validators answer, the executor
\* eventually reaches END, and the node it ran last is post_content (Publish)
\* or validate_content (Abort): the Draft -> Validate -> regenerate cycle is
\* always left.
C1_Terminates ==
  <>(Ended /\ LastNode \in {"post_content", "validate_content"})

\* a run that went round the cycle before it ended
C1_Witness ==
  Ended /\ Executions("regenerate_tweet") >= 1 /\ Executions("validate_content") >= 2

\* C2: post_content runs only right after a Validate pass in which the topic
\* validator, the moderation check and the keyword filter all passed on the
\* tweet that is current; every text logged or handed to the platform by the
\* publisher is that validated tweet.
C2_PublishOnlyValidated ==
  (pc = "post_content" \/ Executions("post_content") > 0) =>
    /\ Len(passes) > 0
    /\ Passed(LastPass)
    /\ LastPass.tweet = Get(state, "generated_tweet", <<>>)
    /\ Get(state, "is_safe", FALSE)
    /\ \A i \in 1..Len(trace) :
         trace[i] = "post_content" => (i > 1 /\ trace[i - 1] = "validate_content")
    /\ \A i \in 1..Len(tweet_log) : tweet_log[i].tweet_text = LastPass.tweet
    /\ \A i \in 1..Len(create_tweet_calls) : create_tweet_calls[i] = LastPass.tweet

\* a tweet handed to the platform after an earlier draft had been rejected
C2_Witness ==
  /\ Executions("post_content") = 1
  /\ Executions("regenerate_tweet") >= 1
  /\ Len(create_tweet_calls) = 1

\* the number of regeneration markers an input of the decision function was
\* built with
MarkersGiven ==
  Cardinality({i \in 1..Len(input.shape) : input.shape[i] = "marker"})

\* C3: the retry decision has its boundary exactly at 3 markers. Applied to
\* any state, should_post_or_regenerate answers post_content when is_safe is
\* true (whatever the count), regenerate_tweet when is_safe is false or unset
\* and fewer than 3 entries of validation_errors are regeneration markers, and
\* END when is_safe is false and the markers have reached 3.
C3_RouterBoundary ==
  (pc # "route") =>
    output = (IF input.is_safe = "true" THEN "post_content"
              ELSE IF MarkersGiven < 3 THEN "regenerate_tweet"
              ELSE "__end__")

\* an unsafe state with exactly 3 markers was routed to END
C3_Witness ==
  pc = "__end__" /\ input.is_safe = "false" /\ MarkersGiven = 3

\* C4: generate_tweet (Draft) runs at most 4 times in a run; a 5th Draft is
\* unreachable for every sequence of validation outcomes.
C4_AtMostFourDrafts ==
  Executions("generate_tweet") <= 4

\* a run in which every draft failed and the retry budget ran out
C4_Witness ==
  /\ Ended
  /\ LastNode = "validate_content"
  /\ Executions("regenerate_tweet") >= 1
  /\ \A i \in 1..Len(passes) : ~Passed(passes[i])

\* C5: when the first three drafts all fail validation, the run is aborted
\* right after the third failed Validate pass: the executor is at END, no
\* fourth Draft was generated and post_content never ran.
C5_AbortAfterThreeFailures ==
  (Len(passes) >= 3 /\ \A i \in 1..3 : ~Passed(passes[i])) =>
    /\ Ended
    /\ LastNode = "validate_content"
    /\ Len(passes) = 3
    /\ Executions("generate_tweet") = 3
    /\ Executions("post_content") = 0

\* three drafts have failed validation
C5_Witness ==
  Len(passes) = 3 /\ \A i \in 1..3 : ~Passed(passes[i])

\* C6: at every routing decision after a Validate pass, the number of entries
\* of validation_errors that contain "Regeneration attempt" equals the number
\* of times regenerate_tweet has run so far.
C6_CountEqualsRegenerations ==
  (LastNode = "validate_content") =>
    regen_count(ValidationErrors) = Executions("regenerate_tweet")

\* C7: right after regenerate_tweet has been merged into the state,
\* validation_errors is exactly one entry, the fresh regeneration marker, and
\* nothing of the earlier passes remains.
C7_ErrorsResetOnRetry ==
  (LastNode = "regenerate_tweet") =>
    /\ Len(ValidationErrors) = 1
    /\ Contains(ValidationErrors[1], S_RegenerationAttempt)

\* C8: when the first draft contains the phrase "fake news", the keyword
\* filter fails with a reason citing that phrase, the first Validate pass
\* leaves is_safe false and routes to regenerate_tweet, and the marker that
\* regeneration writes is "Regeneration attempt 1", after which Draft is next.
C8_FakeNewsRegenerates ==
  (Len(passes) >= 1 /\ Contains(passes[1].tweet, PHRASE_FAKE_NEWS)) =>
    /\ ~passes[1].keyword
    /\ \E i \in 1..Len(passes[1].reasons) : Contains(passes[1].reasons[i], PHRASE_FAKE_NEWS)
    /\ (Len(trace) = 4 => (~Get(state, "is_safe", TRUE) /\ pc = "regenerate_tweet"))
    /\ (Len(trace) >= 5 => trace[5] = "regenerate_tweet")
    /\ (Len(trace) = 5 =>
          /\ ValidationErrors[Len(ValidationErrors)] = MARKER_ATTEMPT_1
          /\ regen_count(ValidationErrors) = 1
          /\ pc = "generate_tweet")

\* the first regeneration after a "fake news" draft has just run
C8_Witness ==
  /\ Len(trace) = 5
  /\ LastNode = "regenerate_tweet"
  /\ Contains(passes[1].tweet, PHRASE_FAKE_NEWS)

\* the mode and outcome of the publish step of a finished run
PublishAccepted ==
  /\ Len(tweet_log) = 1
  /\ tweet_log[1].status \in {"posted", "dry_run"}

FirstPassPath ==
  <<"discover_topic", "research_topic", "generate_tweet", "validate_content", "post_content">>

C10_SafeIsConjunction ==
  (Len(passes) > 0) =>
    /\ DOMAIN state.safety_checks = {"topic_validation", "moderation_check", "keyword_filter"}
    /\ state.safety_checks.topic_validation = LastPass.topic
    /\ state.safety_checks.moderation_check = LastPass.moderation
    /\ state.safety_checks.keyword_filter = LastPass.keyword
    /\ state.is_safe = (LastPass.topic /\ LastPass.moderation /\ LastPass.keyword)

\* a second Validate pass with mixed answers has just run
C10_Witness ==
  /\ Len(passes) = 2
  /\ LastNode = "validate_content"
  /\ LastPass.topic
  /\ ~LastPass.keyword

\* the three checkers in the order validate_content registers them
CheckerOrder ==
  <<"validate_tweet_content", "check_content_safety", "check_keyword_blocklist">>

FailedReasons(p) ==
  (IF ~p.topic THEN p.topic_reasons ELSE <<>>)
    \o (IF ~p.moderation THEN p.moderation_reasons ELSE <<>>)
    \o (IF ~p.keyword THEN p.reasons ELSE <<>>)

\* C12: the failure reasons one Validate pass produces are exactly the
\* concatenation, in the order topic, moderation, blocklist, of the reasons
\* returned by the validators that failed in that pass, and nothing else.
C12_ReasonsAreConcatenation ==
  \A i \in 1..Len(passes) : passes[i].produced = FailedReasons(passes[i])

\* C13: the topic validator and the moderation validator fail closed. When
\* the model call of either raises, that validator answers not-passed with a
\* non-empty list whose entry reports the error, and the Validate pass
\* leaves is_safe false and does not route to post_content.
C13_FailClosed ==
  \A i \in 1..Len(passes) :
    /\ passes[i].topic_raised =>
         /\ ~passes[i].topic
         /\ Len(passes[i].topic_reasons) = 1
         /\ passes[i].topic_reasons[1] = S_ValidationError \o ERR_TIMEOUT
    /\ passes[i].moderation_raised =>
         /\ ~passes[i].moderation
         /\ Len(passes[i].moderation_reasons) = 1
         /\ passes[i].moderation_reasons[1] = S_ModerationError \o ERR_TIMEOUT
    /\ (passes[i].topic_raised \/ passes[i].moderation_raised) =>
         /\ ~passes[i].is_safe
         /\ passes[i].route # "post_content"
         /\ (i = Len(passes) => (~state.is_safe /\ pc # "post_content"))

\* the moderation model raised on a draft that the other two checkers accepted
C13_Witness ==
  /\ Len(passes) = 1
  /\ passes[1].moderation_raised
  /\ ~passes[1].topic_raised
  /\ passes[1].topic
  /\ passes[1].keyword
  /\ ~state.is_safe

\* C14: a generated tweet longer than 280 characters is never accepted by
\* Validate. Whatever the topic model and the moderation model answer (pass,
\* fail or exception), the pass records topic_validation false, leaves
\* is_safe false and does not route to post_content; a tweet of exactly 280
\* characters that every checker accepts is still routed to post_content.
C14_OverLengthNeverAccepted ==
  \A i \in 1..Len(passes) :
    /\ Len(passes[i].tweet) > 280 =>
         /\ ~passes[i].topic
         /\ ~passes[i].is_safe
         /\ passes[i].route # "post_content"
         /\ (i = Len(passes) => (~state.is_safe /\ pc # "post_content"))
    /\ (Len(passes[i].tweet) = 280 /\ Passed(passes[i])) => passes[i].route = "post_content"

\* a tweet of 281 characters was rejected although both models and the
\* blocklist had nothing against it
C14_Witness ==
  /\ Len(passes) = 1
  /\ Len(passes[1].tweet) = 281
  /\ ~passes[1].topic_raised
  /\ passes[1].topic_reasons = <<S_ExceedsA \o <<"2", "8", "1">>>>
  /\ passes[1].moderation
  /\ passes[1].keyword
  /\ pc = "regenerate_tweet"

\* the configured patterns (by index) that match the text: some alternative
\* occurs in it, in any case, as a whole word
MatchingPatterns(text, configured) ==
  {i \in 1..Len(configured.COMPILED_PATTERNS) :
     pattern_search(configured.COMPILED_PATTERNS[i], text, Boundaries(text))}

\* the configured phrases (by index) that the text contains, in any case
MatchingPhrases(text, configured) ==
  {i \in 1..Len(configured.BLOCKED_PHRASES) :
     Contains(Lower(text), Lower(configured.BLOCKED_PHRASES[i]))}

MSG_TOO_LONG_281 ==
  S_TweetTooLongA \o <<"2", "8", "1">> \o S_TweetTooLongB

\* C17: for content longer than 280 characters the Publisher rejects before
\* any platform call, in dry-run and in live mode alike: create_tweet is
\* never called, every invocation logs the attempt as rejected and returns
\* the length failure with is_posted false and no content id; the rejection
\* leaves validation_errors and the retry count as they were, and the run
\* ends there without going back through Validate.
C17_OverLengthRejectedBeforePublish ==
  (Len(input.tweet) > 280 /\ Executions("post_content") >= 1) =>
    /\ create_tweet_calls = <<>>
    /\ Len(tweet_log) = Executions("post_content")
    /\ \A i \in 1..Len(tweet_log) :
         tweet_log[i].status = "rejected" /\ tweet_log[i].tweet_text = input.tweet
    /\ state.is_posted = FALSE
    /\ state.post_result = MSG_TOO_LONG_281
    /\ state.tweet_id = <<>>
    /\ state.validation_errors = input.validation_errors
    /\ regen_count(state.validation_errors) = regen_count(input.validation_errors)
    /\ \A i \in 1..Len(trace) : trace[i] = "post_content"
    /\ pc \in {"__end__", "post_content"}
    /\ passes = <<>>

\* an over-length draft was rejected in a dry run, with earlier errors in
\* the state
C17_Witness ==
  /\ Len(input.tweet) = 281
  /\ is_dry_run(environ)
  /\ input.validation_errors # <<>>
  /\ Executions("post_content") = 1
  /\ pc = "__end__"
  /\ tweet_log[1].status = "rejected"

\* the workflow-log records written by post_content, in order
PostRecords ==
  SelectSeq(workflow_log, LAMBDA r : r.step = "post_content")

\* the dry-run flag is set: DRY_RUN is absent from the environment (the
\* default) or spells "true" in any case
DryRunFlagSet ==
  environ \in {NoEnv, [DRY_RUN |-> S_true], [DRY_RUN |-> ENV_TRUE_CAPS]}

\* C18 as stated: with the dry-run flag set the Publisher never calls the
\* platform, every invocation appends exactly one entry with the attempted
\* content to the tweet log, and every invocation returns a result tagged as
\* a dry run.
C18_DryRunAlwaysTagged ==
  (DryRunFlagSet /\ Executions("post_content") >= 1) =>
    /\ create_tweet_calls = <<>>
    /\ Len(tweet_log) = Executions("post_content")
    /\ \A i \in 1..Len(tweet_log) : tweet_log[i].tweet_text = input.tweet
    /\ Len(PostRecords) = Executions("post_content")
    /\ \A i \in 1..Len(PostRecords) : Contains(PostRecords[i].data.result, S_DRY_RUN)

\* C18 amended: with the dry-run flag set the Publisher never calls the
\* platform and every invocation appends exactly one entry with the
\* attempted content to the tweet log; for content of at most 280 characters
\* the entry has status dry_run and the result is the text tagged [DRY RUN]
\* followed by the content, with is_posted true; for longer content the
\* entry has status rejected and the result is the length failure, untagged.
\* Two invocations on the same content leave two entries and no live post.
C18_DryRunNeverPosts ==
  (DryRunFlagSet /\ Executions("post_content") >= 1) =>
    /\ create_tweet_calls = <<>>
    /\ Len(tweet_log) = Executions("post_content")
    /\ \A i \in 1..Len(tweet_log) : tweet_log[i].tweet_text = input.tweet
    /\ Len(PostRecords) = Executions("post_content")
    /\ \A i \in 1..Len(PostRecords) :
         IF Len(input.tweet) <= 280
           THEN /\ PostRecords[i].data.result = S_DryRunPrefix \o input.tweet
                /\ Contains(PostRecords[i].data.result, S_DRY_RUN)
                /\ PostRecords[i].data.is_posted
                /\ tweet_log[i].status = "dry_run"
           ELSE /\ PostRecords[i].data.result = MSG_TOO_LONG_281
                /\ ~PostRecords[i].data.is_posted
                /\ tweet_log[i].status = "rejected"

\* the Publisher ran twice in a dry run (DRY_RUN written in upper case) on a
\* draft of exactly 280 characters
C18_Witness ==
  /\ "DRY_RUN" \in DOMAIN environ
  /\ environ["DRY_RUN"] = ENV_TRUE_CAPS
  /\ Len(input.tweet) = 280
  /\ Executions("post_content") = 2
  /\ Len(tweet_log) = 2
  /\ tweet_log[1] = tweet_log[2]
  /\ create_tweet_calls = <<>>

\* live mode: DRY_RUN is set to "false"
LiveMode ==
  environ = [DRY_RUN |-> ENV_FALSE]

\* C19: in live mode a run that reaches Publish makes exactly one
\* create_tweet call, with the validated tweet; over a whole run
\* post_content executes at most once and the platform is called at most
\* once, however many regenerations came before, and no other stage calls it.
C19_ExactlyOnePublishCall ==
  /\ Len(create_tweet_calls) <= 1
  /\ Executions("post_content") <= 1
  /\ Executions("post_content") = 0 => create_tweet_calls = <<>>
  /\ (LiveMode /\ Executions("post_content") = 1) =>
       /\ Len(create_tweet_calls) = 1
       /\ create_tweet_calls[1] = state.generated_tweet

\* a live run published after two regenerations and the platform refused
C19_Witness ==
  /\ LiveMode
  /\ Ended
  /\ Executions("regenerate_tweet") = 2
  /\ Executions("post_content") = 1
  /\ Len(create_tweet_calls) = 1
  /\ tweet_log[1].status = "failed"

\* the single invocation of post_content made so far called the platform and
\* the call raised: nothing was logged (an exception other than
\* TweepyException) or the attempt was logged as failed (TweepyException)
PublishCallRaised ==
  /\ Executions("post_content") = 1
  /\ Len(create_tweet_calls) = 1
  /\ (tweet_log = <<>> \/ tweet_log[1].status = "failed")

\* C20: a failure of the publish collaborator never escapes the Publisher.
\* When the create_tweet call raises, whether a platform error or any other
\* exception, post_content still returns its update, the run completes, and
\* the final state has is_posted false, a post_result reporting the failure
\* and an empty tweet_id.
C20_PublishFailureContained ==
  PublishCallRaised =>
    /\ pc = "__end__"
    /\ state.is_posted = FALSE
    /\ state.tweet_id = <<>>
    /\ (Contains(state.post_result, S_FailedPost) \/ Contains(state.post_result, S_ErrorPrefix))

\* the status post_tweet logged for the single invocation made so far
\* ("none" when the tool raised before logging)
LoggedStatus ==
  IF tweet_log = <<>> THEN "none" ELSE tweet_log[1].status

\* C21: is_posted is true in the final state only if the Publisher returned
\* success for a real post or acknowledged a dry run; after every rejected
\* or failed publish attempt, whatever the content or the platform's error
\* text, is_posted is false.
C21_PostedOnlyOnSuccess ==
  (Executions("post_content") = 1) =>
    (state.is_posted <=> LoggedStatus \in {"posted", "dry_run"})

\* C22: the tweet_id of the final state is the platform-assigned identifier
\* after a successful live post and is empty in every dry run and after
\* every failed or rejected publish, whatever the published text contains.
C22_ContentIdOnlyFromPlatform ==
  (Executions("post_content") = 1) =>
    state.tweet_id = (IF LoggedStatus = "posted" THEN PLATFORM_ID ELSE <<>>)

\* C23: post_result is set on completion of every run. Whichever terminal
\* path is taken (post, dry run, failed publish, or Abort after the retries
\* are exhausted), the final state carries a non-empty post_result, and after
\* an Abort it carries is_posted = false.
C23_PostResultAlwaysSet ==
  Ended =>
    /\ "post_result" \in DOMAIN state
    /\ Len(state.post_result) > 0
    /\ LastNode = "validate_content" =>
         ("is_posted" \in DOMAIN state /\ state.is_posted = FALSE)

\* C24: every invocation returns a well-formed record to the trigger: on
\* every terminal path, Abort included, the record run_social_engager
\* returns contains selected_topic, topic_category, generated_tweet,
\* is_posted, post_result and tweet_id.
C24_WellFormedRecord ==
  pc = "returned" => DOMAIN output.result = OUTPUT_KEYS

\* the run published or acknowledged a dry run (as post_tweet logged it)
RunSucceeded ==
  Executions("post_content") = 1 /\ LoggedStatus \in {"posted", "dry_run"}

\* C30: the status each trigger reports distinguishes success from failure:
\* the CLI exit code is 0, and the manual HTTP trigger answers 200 with
\* success true, if and only if the run published or acknowledged a dry
\* run; after an Abort or a failed publish they report failure.
C30_StatusDistinguishesOutcome ==
  pc = "returned" =>
    IF input.trigger = "cli"
      THEN output.exit_code = 0 <=> RunSucceeded
      ELSE /\ output.response.body.success <=> RunSucceeded
           /\ output.response.status_code = 200 <=> RunSucceeded

\* the run ended by publishing: post_content ran once, last
Published ==
  Ended /\ LastNode = "post_content" /\ Executions("post_content") = 1

\* the run ended by aborting: the router left the cycle after a Validate
\* pass and post_content never ran
Aborted ==
  Ended /\ LastNode = "validate_content" /\ Executions("post_content") = 0

\* the control-flow shape of a run so far
RunShape ==
  /\ Executions("discover_topic") <= 1
  /\ Executions("research_topic") <= 1
  /\ Executions("post_content") <= 1
  /\ \A i \in 1..Len(trace) :
       /\ trace[i] = "validate_content" => (i > 1 /\ trace[i - 1] = "generate_tweet")
       /\ trace[i] = "post_content" => i = Len(trace)
  /\ Executions("validate_content") <= Executions("generate_tweet")
  /\ Executions("post_content") = 1 => Ended
  /\ Ended => (Published \/ Aborted)
  /\ ~(Published /\ Aborted)

\* C25: per invocation there is exactly one terminal action, Publish or
\* Abort, never both and never neither: every run ends, and it ends either
\* right after its only post_content execution or by the router leaving the
\* cycle after a Validate pass. discover_topic, research_topic and
\* post_content execute at most once; only the stages of the retry cycle
\* repeat, and every Validate pass comes directly after a Draft execution.
C25_ExactlyOneTerminalAction ==
  []RunShape /\ <>(Published \/ Aborted)

\* a run that aborted after three Draft and three Validate executions
C25_Witness ==
  /\ Aborted
  /\ Executions("generate_tweet") = 3
  /\ Executions("validate_content") = 3
  /\ Executions("discover_topic") = 1

\* the steps recorded in the workflow log
LoggedSteps ==
  {workflow_log[i].step : i \in 1..Len(workflow_log)}

\* what the state holds after a collaborator of Discover, Research or Draft
\* has raised: the stage's fallback update, with the next stage up
FallbacksApplied ==
  /\ "discover_topic_error" \in LoggedSteps =>
       /\ state.selected_topic = FALLBACK_TOPIC
       /\ state.topic_category = CAT_AI
       /\ state.topic_context = FALLBACK_CONTEXT
       /\ pc # "discover_topic"
  /\ "research_topic_error" \in LoggedSteps =>
       /\ state.research_summary = S_TopicPrefix \o state.selected_topic \o S_UnableResearch
       /\ state.key_insights = <<state.selected_topic>>
       /\ pc \notin {"discover_topic", "research_topic"}
  /\ (LastNode = "generate_tweet"
        /\ workflow_log[Len(workflow_log)].step = "generate_tweet_error") =>
       /\ state.generated_tweet = <<>>
       /\ state.tweet_style = STYLE_ERROR
       /\ state.hashtags = <<>>
       /\ pc = "validate_content"

\* C26: a collaborator failure inside Discover, Research or Draft never
\* leaves the stage: the stage returns its fallback update (for Discover the
\* fixed fallback topic, category 'ai' and context), the next stage runs,
\* and every run reaches Validate.
C26_FallbackKeepsPipelineGoing ==
  []FallbacksApplied /\ <>(Executions("validate_content") >= 1)

\* all three collaborators raised and the run still went through Validate
C26_Witness ==
  /\ {"discover_topic_error", "research_topic_error", "generate_tweet_error"}
       \subseteq LoggedSteps
  /\ Executions("validate_content") >= 1
  /\ Ended

\* C27: selected_topic is non-empty in the shared state whenever Discover
\* has completed, on the success path, whatever the discovery agent
\* returned, and on the fallback path, so that Research never runs on an
\* empty topic.
C27_TopicNeverEmpty ==
  Executions("discover_topic") >= 1 => Len(state.selected_topic) > 0

\* the fields each stage owns (validation_errors is shared by Validate and
\* the retry controller, whose node is regenerate_tweet)
OwnedFields(node) ==
  CASE node = "discover_topic" -> {"selected_topic", "topic_category", "topic_context"}
    [] node = "research_topic" -> {"research_summary", "key_insights"}
    [] node = "generate_tweet" -> {"generated_tweet", "tweet_style", "hashtags"}
    [] node = "validate_content" -> {"is_safe", "safety_checks", "validation_errors"}
    [] node = "regenerate_tweet" -> {"validation_errors"}
    [] node = "post_content" -> {"is_posted", "post_result", "tweet_id"}

\* C28: field ownership is respected by every stage on every path: merging
\* a stage's partial update sets or changes only fields that stage owns
\* (Draft: generated_tweet, tweet_style, hashtags; Validate: is_safe,
\* safety_checks; Validate and the retry controller: validation_errors;
\* Publish: is_posted, post_result, tweet_id) and leaves every other field
\* of the shared state as it was.
C28_FieldOwnership ==
  [][\A k \in DOMAIN state' :
       (k \notin DOMAIN state \/ state'[k] # state[k]) =>
         k \in OwnedFields(trace'[Len(trace')])]_vars

\* the node an audit record was written by: the step name is the node's
\* name, followed by _error on the node's error path
RecordedNode(step) ==
  CASE step \in {"discover_topic", "discover_topic_error"} -> "discover_topic"
    [] step \in {"research_topic", "research_topic_error"} -> "research_topic"
    [] step \in {"generate_tweet", "generate_tweet_error"} -> "generate_tweet"
    [] step = "validate_content" -> "validate_content"
    [] step = "regenerate_tweet" -> "regenerate_tweet"
    [] step \in {"post_content", "post_content_error"} -> "post_content"
    [] OTHER -> "unknown"

\* one record per node execution, in execution order
OneRecordPerExecution ==
  /\ Len(workflow_log) = Len(trace)
  /\ \A i \in 1..Len(workflow_log) : RecordedNode(workflow_log[i].step) = trace[i]

\* C29: the audit log records the full sequence of stage executions: every
\* execution of discover_topic, research_topic, generate_tweet,
\* validate_content, regenerate_tweet and post_content appends exactly one
\* record to the workflow log, on its success path and on its error path
\* alike, in execution order, and no record already written is ever
\* modified or removed.
C29_AuditLogComplete ==
  /\ []OneRecordPerExecution
  /\ [][/\ Len(workflow_log') = Len(workflow_log) + 1
        /\ SubSeq(workflow_log', 1, Len(workflow_log)) = workflow_log]_vars

\* a finished run in which four collaborators failed and the draft was
\* regenerated: error records and success records interleave in the log
C29_Witness ==
  /\ Ended
  /\ {"discover_topic_error", "research_topic_error", "generate_tweet_error",
      "generate_tweet", "regenerate_tweet", "validate_content", "post_content_error"}
       \subseteq LoggedSteps
  /\ Len(workflow_log) = Len(trace)

\* C34: an empty or whitespace-only generated tweet is never published. The
\* moderation validator and the keyword blocklist both pass such a text, but
\* the topic validator rejects it, so every Validate pass on it yields
\* is_safe = false and the router answers regenerate_tweet or END, never
\* post_content.
C34_EmptyTweetNeverPublished ==
  \A i \in 1..Len(passes) :
    (Len(passes[i].tweet) = 0 \/ IsBlank(passes[i].tweet)) =>
      /\ passes[i].moderation
      /\ passes[i].keyword
      /\ ~passes[i].topic
      /\ passes[i].topic_reasons = <<S_TweetIsEmpty>>
      /\ ~passes[i].is_safe
      /\ passes[i].route \in {"regenerate_tweet", "__end__"}
      /\ (i = Len(passes) /\ LastNode = "validate_content") =>
           /\ state.is_safe = FALSE
           /\ pc \in {"regenerate_tweet", "__end__"}
           /\ create_tweet_calls = <<>>

\* a whitespace-only draft went through a Validate pass and was sent back
\* for regeneration
C34_Witness ==
  /\ Len(passes) = 1
  /\ passes[1].tweet = TWEET_BLANK
  /\ passes[1].moderation
  /\ passes[1].keyword
  /\ pc = "regenerate_tweet"

\* C35: live posting is opt-in: the platform is called only when DRY_RUN has
\* explicitly been set to false; with DRY_RUN unset, or set to any value
\* other than false, the run is a dry run.
C35_LiveOnlyWhenSetToFalse ==
  create_tweet_calls # <<>> =>
    ("DRY_RUN" \in DOMAIN environ /\ Lower(environ["DRY_RUN"]) = ENV_FALSE)

\* C38: after any sequence of add_blocked_pattern calls, including calls
\* whose pattern fails to compile, BLOCKED_PATTERNS and COMPILED_PATTERNS
\* have the same length and COMPILED_PATTERNS[i] is the compilation of
\* BLOCKED_PATTERNS[i] for every i, so that every "Pattern: ..." reason of
\* check_keyword_blocklist names a pattern that compiles and matches the
\* text that was checked.
C38_PatternListsInStep ==
  /\ Len(blocklist.BLOCKED_PATTERNS) = Len(blocklist.COMPILED_PATTERNS)
  /\ \A i \in 1..Len(blocklist.COMPILED_PATTERNS) :
       /\ ~re_error(blocklist.BLOCKED_PATTERNS[i])
       /\ blocklist.COMPILED_PATTERNS[i] = re_compile(blocklist.BLOCKED_PATTERNS[i])
  /\ \A c \in 1..Len(output) :
       \A k \in 1..Len(output[c].result[2]) :
         \A i \in 1..Len(output[c].before.BLOCKED_PATTERNS) :
           output[c].result[2][k] = S_PatternPrefix \o output[c].before.BLOCKED_PATTERNS[i] =>
             /\ ~re_error(output[c].before.BLOCKED_PATTERNS[i])
             /\ pattern_search(re_compile(output[c].before.BLOCKED_PATTERNS[i]),
                               output[c].text, Boundaries(output[c].text))

\* C37: appending hashtags never pushes a draft over the platform limit. On
\* the structured path, for every tweet_text of at most 280 characters and
\* every hashtag list, the output has at most 280 characters: it is the text
\* followed by a space and at most the first three hashtags when that fits
\* in 280, and the text alone otherwise. On the fallback path, which cuts
\* the text to 250 characters, the output always has at most 280.
C37_HashtagsKeepLimit ==
  pc = "__end__" =>
    /\ Len(output.generated_tweet) <= 280
    /\ input.structured =>
         \E tags \in {HashtagsStr(input.hashtags, 3)} :
           IF Len(input.tweet_text) + 1 + Len(tags) <= 280
             THEN output.generated_tweet = Strip(input.tweet_text \o <<" ">> \o tags)
             ELSE output.generated_tweet = input.tweet_text
    /\ Cardinality({i \in 1..Len(output.generated_tweet) :
                      output.generated_tweet[i] = "#"}) <= 3

\* a text of 277 characters came with one hashtag that no longer fits and
\* was returned without it
C37_Witness ==
  /\ pc = "__end__"
  /\ input.structured
  /\ Len(input.tweet_text) = 277
  /\ input.hashtags = <<TAG_AI>>
  /\ output.generated_tweet = input.tweet_text

\* C32: the research sub-workflow is bounded. In one research run
\* research_tool_node executes at most MAX_RESEARCH_ITERATIONS (5) times,
\* however often the model keeps asking for tools; the run always comes to
\* an end, and when it ends (its model calls not raising) compress_research
\* has run exactly once, as the last node.
C32_ResearchBounded ==
  /\ [](/\ Executions("research_tool_node") <= MAX_RESEARCH_ITERATIONS
        /\ Executions("research_tool_node") = Get(state, "tool_call_iterations", 0)
        /\ Executions("compress_research") <= 1
        /\ pc = "__end__" <=> Executions("compress_research") = 1
        /\ pc = "__end__" => trace[Len(trace)] = "compress_research")
  /\ <>(pc \in {"__end__", "raised"})

\* the model asked for tools on every turn: the tool node ran five times,
\* the sixth answer still asked for a tool, and compress_research ended
\* the run
C32_Witness ==
  /\ pc = "__end__"
  /\ Executions("research_tool_node") = MAX_RESEARCH_ITERATIONS
  /\ Executions("research_llm_call") = MAX_RESEARCH_ITERATIONS + 1
  /\ \A i \in 1..Len(state["researcher_messages"]) :
       state["researcher_messages"][i].type = "ai"
         => state["researcher_messages"][i].tool_calls # <<>>

\* C33: the trend-discovery sub-workflow always reaches select_topic: for
\* every behaviour of the model whose calls do not raise, a model that asks
\* for a tool on every turn included, the cycle discover_trends ->
\* process_tools -> discover_trends is left and select_topic runs.
C33_AlwaysReachesSelectTopic ==
  <>(Executions("select_topic") = 1 \/ pc = "raised")

\* C31: invocations are independent: the dry-run override of one manual
\* trigger affects only that invocation, so an invocation that carries no
\* override (the daily timer, a manual trigger without dry_run) runs in the
\* mode the process was configured with: its post_tweet calls the platform
\* exactly when the configured DRY_RUN is not the dry-run setting.
C31_OverrideAffectsOnlyItsInvocation ==
  \A i \in 1..Len(passes) :
    ~passes[i].overridden => (passes[i].call.called <=> ~is_dry_run(input.configured))

\* C36: within one run the dry-run mode is read consistently: the dry_run
\* value of the post_content audit record equals the mode post_tweet used
\* to decide whether to call the platform, also when another invocation
\* changes the override while the run is in progress.
C36_DryRunReadConsistently ==
  \A i \in 1..Len(workflow_log) :
    workflow_log[i].step = "post_content"
      => (workflow_log[i].data.dry_run <=> ~passes[i].call.called)
====
